---------------------------- MODULE Spec2Model ----------------------------
(***************************************************************************)
(* Model of the privileged-architecture core of NEMU (riscv64):           *)
(*   src/src/isa/riscv64/system/intr.c   trap delegation, interrupt query  *)
(*   src/src/isa/riscv64/system/mmu.c    MMU-state cache, page-table walk  *)
(*                                                                         *)
(* A 64-bit word (word_t, vaddr_t, paddr_t, a CSR's val) is the set of     *)
(* the positions of its 1 bits, a subset of 0..63, so that every shift,    *)
(* mask and wrap-around of the C code keeps its width.                     *)
(***************************************************************************)
EXTENDS Integers, Sequences, FiniteSets, TLC

VARIABLES
  config,     \* the build: the CONFIG_* macros the modelled code branches on
  cpu,        \* cpu.mode, cpu.v, cpu.amo, cpu.instr
  mstatus,    \* the bit fields of mstatus the code reads or writes
  vsstatus,   \* the bit fields of vsstatus
  hstatus,    \* the bit fields of hstatus
  tcontrol,   \* the bit fields of tcontrol (CONFIG_RV_SDTRIG)
  csr,        \* the CSRs used through ->val, by name
  atp,        \* satp, vsatp, hgatp: mode and ppn
  mmu,        \* ifetch_mmu_state, data_mmu_state, h_mmu_state
  glob,       \* hld_st, hlvx, pt_level, the flush-tcache system flag
  pmem,       \* physical memory holding the page tables: address -> 8-byte entry
  call,       \* the last call made: its arguments, its outcome, the state before it
  ncalls      \* number of calls made so far

vars == <<config, cpu, mstatus, vsstatus, hstatus, tcontrol, csr, atp, mmu,
          glob, pmem, call, ncalls>>

---------------------------------------------------------------------------
(* 64-bit words                                                            *)

Bits == 0 .. 63

\* the powers of two below 2^31
Pow2Tab == <<1, 2, 4, 8, 16, 32, 64, 128, 256, 512, 1024, 2048, 4096, 8192,
             16384, 32768, 65536, 131072, 262144, 524288, 1048576, 2097152,
             4194304, 8388608, 16777216, 33554432, 67108864, 134217728,
             268435456, 536870912, 1073741824>>
\* the word holding the small natural number n (n < 2^31)
W(n) == {i \in 0 .. 30 : (n \div Pow2Tab[i + 1]) % 2 = 1}

\* the natural number held by a word that fits 31 bits
RECURSIVE Val(_)
Val(w) == IF w = {} THEN 0
          ELSE LET i == CHOOSE j \in w : TRUE
               IN Pow2Tab[i + 1] + Val(w \ {i})

Shl(w, n) == {i + n : i \in {j \in w : j + n <= 63}}
Shr(w, n) == {i - n : i \in {j \in w : j >= n}}
\* arithmetic right shift of an int64_t
Sar(w, n) == Shr(w, n) \cup (IF 63 \in w THEN (64 - n) .. 63 ELSE {})
And(a, b) == a \cap b
Or(a, b) == a \cup b
Not(w) == Bits \ w
LowMask(n) == 0 .. (n - 1)

Bit(b) == IF b THEN 1 ELSE 0

RECURSIVE AddFrom(_, _, _, _)
AddFrom(a, b, i, c) ==
  IF i > 63 THEN {}
  ELSE LET s == Bit(i \in a) + Bit(i \in b) + c
       IN (IF s % 2 = 1 THEN {i} ELSE {}) \cup AddFrom(a, b, i + 1, s \div 2)

\* a + b modulo 2^64
Add(a, b) == AddFrom(a, b, 0, 0)

Min(S) == CHOOSE x \in S : \A y \in S : x <= y
Max(S) == CHOOSE x \in S : \A y \in S : y <= x

Xor(a, b) == (a \ b) \cup (b \ a)
\* a < b and a <= b of two word_t
ULt(a, b) == a # b /\ Max(Xor(a, b)) \in b
ULe(a, b) == a = b \/ ULt(a, b)

\* w - 1 modulo 2^64
Dec(w) == IF w = {} THEN Bits
          ELSE LET m == Min(w) IN (w \ {m}) \cup LowMask(m)

\* (1 << n) of the C code: the int 1 shifted, converted to word_t; defined
\* for the shift counts below 31, the only ones the modelled causes give
Int1Shl(n) == {n}

---------------------------------------------------------------------------
(* Program constants                                                       *)

MODE_U == 0
MODE_S == 1
MODE_RS == 2
MODE_M == 3

MMU_DIRECT == 0
MMU_TRANSLATE == 1

MEM_TYPE_IFETCH == 0
MEM_TYPE_READ == 1
MEM_TYPE_WRITE == 2
MEM_TYPE_IFETCH_READ == 3
MEM_TYPE_WRITE_READ == 4

\* fields of a pmpcfg byte, and the shift of a pmpaddr register
PMP_R == {0}
PMP_W == {1}
PMP_X == {2}
PMP_A == {3, 4}
PMP_L == {7}
PMP_T == {5}
PMP_TOR == {3}
PMP_NA4 == {4}
PMP_NAPOT == {3, 4}
PMP_SHIFT == 2

\* exception numbers (local-include/intr.h)
EX_IAM == 0
EX_IAF == 1
EX_II == 2
EX_BP == 3
EX_LAM == 4
EX_LAF == 5
EX_SAM == 6
EX_SAF == 7
EX_ECU == 8
EX_IPF == 12
EX_LPF == 13
EX_SPF == 15
EX_IGPF == 20
EX_LGPF == 21
EX_VI == 22
EX_SGPF == 23

\* interrupt numbers (local-include/intr.h)
IRQ_USIP == 0
IRQ_SSIP == 1
IRQ_VSSIP == 2
IRQ_MSIP == 3
IRQ_UTIP == 4
IRQ_STIP == 5
IRQ_VSTIP == 6
IRQ_MTIP == 7
IRQ_UEIP == 8
IRQ_SEIP == 9
IRQ_VSEIP == 10
IRQ_MEIP == 11
IRQ_SGEI == 12
IRQ_LCOFI == 13

INTR_BIT == {63}
INTR_EMPTY == Bits

\* the word of exception number n, and of interrupt number n
Exc(n) == W(n)
Irq(n) == W(n) \cup INTR_BIT

---------------------------------------------------------------------------
(* The machine state as one record, so that the functions of the code can  *)
(* be written as operators from state to state.                            *)

St == [config |-> config, cpu |-> cpu, mstatus |-> mstatus,
       vsstatus |-> vsstatus, hstatus |-> hstatus, tcontrol |-> tcontrol,
       csr |-> csr, atp |-> atp, mmu |-> mmu, glob |-> glob, pmem |-> pmem]

---------------------------------------------------------------------------
(* mmu.c: the MMU-state cache                                              *)

\* update_mmu_state_internal applying MPRV to instruction fetches too
update_mmu_state_internal_mprv_fetch(s, ifetch) ==
  LET mode == IF s.mstatus.mprv = 1 THEN s.mstatus.mpp ELSE s.cpu.mode
  IN IF mode < MODE_M /\ s.atp.satp.mode \in {8, 9}
     THEN MMU_TRANSLATE ELSE MMU_DIRECT

\* update_mmu_state_internal(ifetch)
update_mmu_state_internal(s, ifetch) ==
  LET mode == IF s.mstatus.mprv = 1 /\ ~ifetch THEN s.mstatus.mpp ELSE s.cpu.mode
  IN IF mode < MODE_M
     THEN IF s.config.RV_SV48
          THEN IF s.atp.satp.mode = 8 \/ s.atp.satp.mode = 9
               THEN MMU_TRANSLATE ELSE MMU_DIRECT
          ELSE IF s.atp.satp.mode = 8 THEN MMU_TRANSLATE ELSE MMU_DIRECT
     ELSE MMU_DIRECT

\* update_h_mmu_state_internal(ifetch)
update_h_mmu_state_internal(s, ifetch) ==
  LET mode == IF s.mstatus.mprv = 1 /\ ~ifetch THEN s.mstatus.mpp ELSE s.cpu.mode
  IN IF mode < MODE_M
     THEN IF s.config.RV_SV48
          THEN IF s.atp.vsatp.mode = 8 \/ s.atp.vsatp.mode = 9
                  \/ s.atp.hgatp.mode = 8 \/ s.atp.hgatp.mode = 9
               THEN MMU_TRANSLATE ELSE MMU_DIRECT
          ELSE IF s.atp.vsatp.mode = 8 \/ s.atp.hgatp.mode = 8
               THEN MMU_TRANSLATE ELSE MMU_DIRECT
     ELSE MMU_DIRECT

\* update_mmu_state(): the state with the three cached values recomputed
update_mmu_state(s) ==
  [s EXCEPT !.mmu =
     [ifetch |-> update_mmu_state_internal(s, TRUE),
      data   |-> update_mmu_state_internal(s, FALSE),
      h      |-> IF s.config.RVH THEN update_h_mmu_state_internal(s, FALSE)
                 ELSE s.mmu.h]]

\* the value update_mmu_state() returns: whether the data state flipped
update_mmu_state_ret(s) == update_mmu_state(s).mmu.data # s.mmu.data

---------------------------------------------------------------------------
(* intr.c: trap delegation                                                 *)

\* the delegation register consulted for a cause, and the cause's bit in it
deleg_bit_RVH(NO) == Int1Shl(Val(And(NO, LowMask(8))))
deleg_bit_noRVH(NO) == Int1Shl(Val(And(NO, LowMask(4))))

\* intr_deleg_S without the test of the current mode
intr_deleg_S_anymode(s, NO) ==
  LET deleg == IF And(NO, INTR_BIT) # {} THEN s.csr.mideleg ELSE s.csr.medeleg
      bit   == IF s.config.RVH THEN deleg_bit_RVH(NO) ELSE deleg_bit_noRVH(NO)
  IN  And(deleg, bit) # {}

\* intr_deleg_S(exceptionNO)
intr_deleg_S(s, NO) ==
  LET deleg == IF And(NO, INTR_BIT) # {} THEN s.csr.mideleg ELSE s.csr.medeleg
      bit   == IF s.config.RVH THEN deleg_bit_RVH(NO) ELSE deleg_bit_noRVH(NO)
  IN  And(deleg, bit) # {} /\ s.cpu.mode < MODE_M

\* intr_deleg_VS reading guest mode inverted
intr_deleg_VS_notv(s, NO) ==
  LET deleg == IF And(NO, INTR_BIT) # {} THEN s.csr.hideleg ELSE s.csr.hedeleg
  IN  intr_deleg_S(s, NO) /\ s.cpu.v = 0
      /\ And(deleg, deleg_bit_RVH(NO)) # {} /\ s.cpu.mode < MODE_M

\* intr_deleg_VS(exceptionNO)  (CONFIG_RVH)
intr_deleg_VS(s, NO) ==
  LET delegS  == intr_deleg_S(s, NO)
      deleg   == IF And(NO, INTR_BIT) # {} THEN s.csr.hideleg ELSE s.csr.hedeleg
      delegVS == s.cpu.v # 0 /\ And(deleg, deleg_bit_RVH(NO)) # {}
                 /\ s.cpu.mode < MODE_M
  IN  delegS /\ delegVS

\* get_trap_pc vectoring exceptions too
get_trap_pc_noisintr(s, xtvec, xcause) ==
  LET base     == Shl(Shr(xtvec, 2), 2)
      cause_no == IF s.config.RVH THEN And(xcause, LowMask(8))
                  ELSE And(xcause, LowMask(4))
  IN  IF And(xtvec, {0}) = {0} THEN Add(base, Shl(cause_no, 2)) ELSE base

\* get_trap_pc(xtvec, xcause)
get_trap_pc(s, xtvec, xcause) ==
  LET base     == Shl(Shr(xtvec, 2), 2)
      mode     == And(xtvec, {0})
      is_intr  == Shr(xcause, 63) = {0}
      cause_no == IF s.config.RVH THEN And(xcause, LowMask(8))
                  ELSE And(xcause, LowMask(4))
  IN  IF is_intr /\ mode = {0} THEN Add(base, Shl(cause_no, 2)) ELSE base

\* the value MUXDEF(CONFIG_TVAL_EX_II, cpu.instr, 0)
tval_ex_ii(s) == IF s.config.TVAL_EX_II THEN s.cpu.instr ELSE {}

\* the case labels shared by the three switch statements of raise_intr
PfAmAfCases == {Exc(EX_IPF), Exc(EX_LPF), Exc(EX_SPF), Exc(EX_LAM),
                Exc(EX_SAM), Exc(EX_IAF), Exc(EX_LAF), Exc(EX_SAF)}
GpfCases == {Exc(EX_IGPF), Exc(EX_LGPF), Exc(EX_SGPF)}
PfCases == {Exc(EX_IPF), Exc(EX_LPF), Exc(EX_SPF)}
IiViCases == {Exc(EX_II), Exc(EX_VI)}

\* the value written to hstatus.gva / mstatus.gva
gva_value(s, NO, hld_st_temp) ==
  LET v == IF s.mstatus.mprv = 1 THEN s.mstatus.mpv ELSE s.cpu.v
  IN  Bit(NO \in GpfCases
          \/ ((v # 0 \/ hld_st_temp)
              /\ ((NO \subseteq LowMask(3) /\ NO # Exc(EX_II))
                  \/ NO \in PfCases)))

\* trap_to_VS entering the guest's U mode
trap_to_VS_user(s, NO, epc) ==
  LET r == [s EXCEPT !.csr.vscause = NO, !.csr.vsepc = epc, !.cpu.v = 1,
                     !.cpu.mode = MODE_U]
  IN  [s |-> update_mmu_state(r), ret |-> r.csr.vstvec]

\* trap_to_VS saving the previous mode and interrupt enable in mstatus
trap_to_VS_mstatus(s, NO, epc) ==
  LET vscause == IF And(NO, INTR_BIT) # {}
                 THEN Or(Dec(And(NO, Not(INTR_BIT))), INTR_BIT) ELSE NO
      s1 == [s EXCEPT !.csr.vscause = vscause,
                      !.csr.vsepc = epc,
                      !.mstatus.spp = s.cpu.mode % 2,
                      !.mstatus.spie = s.mstatus.sie,
                      !.mstatus.sie = 0,
                      !.cpu.v = 1,
                      !.cpu.mode = MODE_S]
      s2 == update_mmu_state(s1)
  IN  [s |-> s2, ret |-> get_trap_pc(s2, s2.csr.vstvec, s2.csr.vscause)]

\* raise_intr, the branch taken when delegVS holds (CONFIG_RVH)
trap_to_VS(s, NO, epc) ==
  LET vscause == IF And(NO, INTR_BIT) # {}
                 THEN Or(Dec(And(NO, Not(INTR_BIT))), INTR_BIT) ELSE NO
      vstval  == IF NO \in PfAmAfCases THEN s.csr.vstval
                 ELSE IF NO = Exc(EX_BP) THEN epc
                 ELSE IF NO = Exc(EX_II) THEN tval_ex_ii(s)
                 ELSE {}
      s1 == [s EXCEPT !.csr.vscause = vscause,
                      !.csr.vsepc = epc,
                      !.vsstatus.spp = s.cpu.mode % 2,
                      !.vsstatus.spie = s.vsstatus.sie,
                      !.vsstatus.sie = 0,
                      !.csr.vstval = vstval,
                      !.cpu.v = 1,
                      !.cpu.mode = MODE_S]
      s2 == update_mmu_state(s1)
  IN  [s |-> s2, ret |-> get_trap_pc(s2, s2.csr.vstvec, s2.csr.vscause)]

\* hs_save_v clearing guest mode before recording it
hs_save_v_cleared_first(s, NO, hld_st_temp) ==
  [s EXCEPT !.hstatus.gva = gva_value(s, NO, hld_st_temp),
            !.hstatus.spv = 0,
            !.cpu.v = 0,
            !.glob.flush_tcache = TRUE]

\* raise_intr, Supervisor branch: hstatus.{gva,spv,spvp} recorded, then
\* guest mode left (CONFIG_RVH)
hs_save_v(s, NO, hld_st_temp) ==
  [s EXCEPT !.hstatus.gva = gva_value(s, NO, hld_st_temp),
            !.hstatus.spv = s.cpu.v % 2,
            !.hstatus.spvp = IF s.cpu.v # 0 THEN s.cpu.mode % 2
                             ELSE s.hstatus.spvp,
            !.cpu.v = 0,
            !.glob.flush_tcache = TRUE]

\* s_save_status leaving SPIE as it was
s_save_status_nospie(s, NO, epc) ==
  [s EXCEPT !.csr.scause = NO,
            !.csr.sepc = epc,
            !.mstatus.spp = s.cpu.mode % 2,
            !.mstatus.sie = 0]

\* s_save_status disabling machine interrupts as well
s_save_status_clears_mie(s, NO, epc) ==
  [s EXCEPT !.csr.scause = NO,
            !.csr.sepc = epc,
            !.mstatus.spp = s.cpu.mode % 2,
            !.mstatus.spie = s.mstatus.sie,
            !.mstatus.sie = 0,
            !.mstatus.mpie = s.mstatus.mie,
            !.mstatus.mie = 0]

\* raise_intr, Supervisor branch: scause, sepc and mstatus.{spp,spie,sie}
s_save_status(s, NO, epc) ==
  [s EXCEPT !.csr.scause = NO,
            !.csr.sepc = epc,
            !.mstatus.spp = s.cpu.mode % 2,
            !.mstatus.spie = s.mstatus.sie,
            !.mstatus.sie = 0]

\* raise_intr, the branch taken when delegS holds and delegVS does not
trap_to_S(s, NO, epc, hld_st_temp) ==
  LET rvh == s.config.RVH
      s0 == IF rvh THEN hs_save_v(s, NO, hld_st_temp) ELSE s
      stval == IF NO \in PfAmAfCases THEN s.csr.stval
               ELSE IF rvh /\ NO \in GpfCases THEN s.csr.stval
               ELSE IF NO \in IiViCases THEN tval_ex_ii(s)
               ELSE IF NO = Exc(EX_BP) THEN epc
               ELSE {}
      htval == IF rvh /\ NO \notin GpfCases THEN {} ELSE s.csr.htval
      s1 == [s_save_status(s0, NO, epc) EXCEPT
                       !.csr.stval = stval,
                       !.csr.htval = htval,
                       !.csr.htinst = IF rvh THEN {} ELSE s.csr.htinst,
                       !.cpu.mode = MODE_S]
      s2 == update_mmu_state(s1)
  IN  [s |-> s2, ret |-> get_trap_pc(s2, s2.csr.stvec, s2.csr.scause)]

\* raise_intr, Machine branch: mstatus.{gva,mpv} recorded, then guest mode
\* left (CONFIG_RVH)
m_save_v(s, NO, hld_st_temp) ==
  [s EXCEPT !.mstatus.gva = gva_value(s, NO, hld_st_temp),
            !.mstatus.mpv = s.cpu.v % 2,
            !.cpu.v = 0,
            !.glob.flush_tcache = TRUE]

\* raise_intr, Machine branch: mcause, mepc and mstatus.{mpp,mpie,mie}
m_save_status(s, NO, epc) ==
  [s EXCEPT !.csr.mcause = NO,
            !.csr.mepc = epc,
            !.mstatus.mpp = s.cpu.mode % 4,
            !.mstatus.mpie = s.mstatus.mie,
            !.mstatus.mie = 0]

\* raise_intr, the branch taken when delegS does not hold
trap_to_M(s, NO, epc, hld_st_temp) ==
  LET rvh == s.config.RVH
      s0 == IF rvh THEN m_save_v(s, NO, hld_st_temp) ELSE s
      s0t == IF s.config.RV_SDTRIG
             THEN [s0 EXCEPT !.tcontrol.mpte = s.tcontrol.mte, !.tcontrol.mte = 0]
             ELSE s0
      mtval == IF NO \in PfAmAfCases \/ NO \in GpfCases THEN s.csr.mtval
               ELSE IF NO \in IiViCases THEN tval_ex_ii(s)
               ELSE IF NO = Exc(EX_BP) THEN epc
               ELSE {}
      \* the clearing of mtval2 after "case EX_BP: ...; break;" is never executed
      mtval2 == IF rvh /\ NO \notin GpfCases /\ NO # Exc(EX_BP) THEN {} ELSE s.csr.mtval2
      s1 == [m_save_status(s0t, NO, epc) EXCEPT
                        !.csr.mtval = mtval,
                        !.csr.mtval2 = mtval2,
                        !.csr.mtinst = IF rvh THEN {} ELSE s.csr.mtinst,
                        !.cpu.mode = MODE_M]
      s2 == update_mmu_state(s1)
  IN  [s |-> s2, ret |-> get_trap_pc(s2, s2.csr.mtvec, s2.csr.mcause)]

\* word_t raise_intr(word_t NO, vaddr_t epc): the new state and the returned pc
raise_intr(s, NO, epc) ==
  LET delegS      == intr_deleg_S(s, NO)
      hld_st_temp == s.glob.hld_st
      sh          == IF s.config.RVH THEN [s EXCEPT !.glob.hld_st = FALSE] ELSE s
      delegVS     == s.config.RVH /\ intr_deleg_VS(sh, NO)
  IN  IF delegVS THEN trap_to_VS(sh, NO, epc)
      ELSE IF delegS THEN trap_to_S(sh, NO, epc, hld_st_temp)
      ELSE trap_to_M(sh, NO, epc, hld_st_temp)

---------------------------------------------------------------------------
(* intr.c: the pending-interrupt query                                     *)

\* priority[] with the supervisor timer ahead of the supervisor external
priority_timer_first(s) ==
  IF s.config.RVH
  THEN <<IRQ_MEIP, IRQ_MSIP, IRQ_MTIP, IRQ_STIP, IRQ_SSIP, IRQ_SEIP,
         IRQ_UEIP, IRQ_USIP, IRQ_UTIP, IRQ_VSEIP, IRQ_VSSIP, IRQ_VSTIP,
         IRQ_SGEI>>
  ELSE <<IRQ_MEIP, IRQ_MSIP, IRQ_MTIP, IRQ_STIP, IRQ_SSIP, IRQ_SEIP,
         IRQ_UEIP, IRQ_USIP, IRQ_UTIP>>

\* const int priority[]
priority(s) ==
  IF s.config.RVH
  THEN <<IRQ_MEIP, IRQ_MSIP, IRQ_MTIP, IRQ_SEIP, IRQ_SSIP, IRQ_STIP,
         IRQ_UEIP, IRQ_USIP, IRQ_UTIP, IRQ_VSEIP, IRQ_VSSIP, IRQ_VSTIP,
         IRQ_SGEI>>
       \o (IF s.config.RV_SSCOFPMF THEN <<IRQ_LCOFI>> ELSE <<>>)
  ELSE <<IRQ_MEIP, IRQ_MSIP, IRQ_MTIP, IRQ_SEIP, IRQ_SSIP, IRQ_STIP,
         IRQ_UEIP, IRQ_USIP, IRQ_UTIP>>

\* global_enable with the delegated case gated by mstatus.mie
global_enable_mie(s, irq) ==
  LET deleg  == And(s.csr.mideleg, Int1Shl(irq)) # {}
      m      == s.cpu.mode
  IN  IF deleg
      THEN (m = MODE_M /\ s.mstatus.mie = 1) \/ m < MODE_M
      ELSE (m = MODE_M /\ s.mstatus.mie = 1) \/ m < MODE_M

\* bool global_enable, for one irq
global_enable(s, irq) ==
  LET deleg  == And(s.csr.mideleg, Int1Shl(irq)) # {}
      hdeleg == And(s.csr.hideleg, Int1Shl(irq)) # {}
      m      == s.cpu.mode
      v      == s.cpu.v # 0
  IN  IF s.config.RVH
      THEN IF hdeleg /\ deleg
           THEN (v /\ m = MODE_S /\ s.vsstatus.sie = 1) \/ (v /\ m < MODE_S)
           ELSE IF deleg
           THEN (m = MODE_S /\ s.mstatus.sie = 1) \/ m < MODE_S \/ v
           ELSE (m = MODE_M /\ s.mstatus.mie = 1) \/ m < MODE_M
      ELSE IF deleg
           THEN (m = MODE_S /\ s.mstatus.sie = 1) \/ m < MODE_S
           ELSE (m = MODE_M /\ s.mstatus.mie = 1) \/ m < MODE_M

RECURSIVE query_loop(_, _, _)
\* the for loop of isa_query_intr, from index i (1-based)
query_loop(s, intr_vec, i) ==
  IF i > Len(priority(s)) THEN INTR_EMPTY
  ELSE LET irq == priority(s)[i]
       IN  IF And(intr_vec, Int1Shl(irq)) # {} /\ global_enable(s, irq)
           THEN Or(W(irq), INTR_BIT)
           ELSE query_loop(s, intr_vec, i + 1)

\* word_t isa_query_intr()
isa_query_intr(s) ==
  LET intr_vec == And(s.csr.mie, s.csr.mip)
  IN  IF intr_vec = {} THEN INTR_EMPTY ELSE query_loop(s, intr_vec, 1)

---------------------------------------------------------------------------
(* mmu.c: page-table entries and the results of the translation functions  *)

\* status values returned with an address
MEM_RET_OK == 0
MEM_RET_FAIL == 1
MEM_RET_CROSS_PAGE == 2

PGSHFT == 12
PTE_SIZE == 8
PAGE_SIZE == 4096
PGMASK == LowMask(PGSHFT)
PAGE_MASK == LowMask(PGSHFT)
VPNMASK == LowMask(9)
GPVPNMASK == LowMask(11)

\* PGBASE(pn); the modelled page numbers are below 2^32, where the width of
\* the bit-field operand makes no difference to the shift
PGBASE(pn) == Shl(pn, PGSHFT)

\* the fields of union PageTableEntry
pte_v(p) == 0 \in p
pte_r(p) == 1 \in p
pte_w(p) == 2 \in p
pte_x(p) == 3 \in p
pte_u(p) == 4 \in p
pte_a(p) == 6 \in p
pte_d(p) == 7 \in p
pte_ppn(p) == Shr(And(p, 10 .. 53), 10)
pte_pad(p) == And(p, 54 .. 63) # {}

VPNiSHFT(i) == PGSHFT + 9 * i
VPNi(va, i) == And(Shr(va, VPNiSHFT(i)), VPNMASK)
GVPNi(va, i) == IF i = 2 THEN And(Shr(va, VPNiSHFT(i)), GPVPNMASK)
                ELSE And(Shr(va, VPNiSHFT(i)), VPNMASK)

\* what a translation function hands back: the state it leaves, how it ended
\* ("none": it returned; "exception": longjmp_exception(ex); "assert": an
\* assertion failed), its return value, the table entries it read and the
\* calls of check_permission it made
Ret(s, ret, reads, perm) ==
  [s |-> s, fault |-> "none", ex |-> 0, ret |-> ret, reads |-> reads,
   perm |-> perm]
longjmp_exception(s, ex, reads, perm) ==
  [s |-> s, fault |-> "exception", ex |-> ex, ret |-> {}, reads |-> reads,
   perm |-> perm]
AssertFailed(s, reads, perm) ==
  [s |-> s, fault |-> "assert", ex |-> 0, ret |-> {}, reads |-> reads,
   perm |-> perm]

\* word_t INTR_TVAL_SV48_SEXT(word_t vaddr)
INTR_TVAL_SV48_SEXT(s, vaddr) ==
  LET n == IF s.config.RV_SV48 THEN 48 ELSE 39
      low == And(vaddr, LowMask(n))
  IN  IF (n - 1) \in low THEN Or(low, n .. 63) ELSE low

\* the address as it is written to a trap-value register
tval_addr(s, vaddr) ==
  IF s.config.USE_XS_ARCH_CSRS THEN INTR_TVAL_SV48_SEXT(s, vaddr) ELSE vaddr

\* INTR_TVAL_REG(ex) = val: stval when ex is delegated to Supervisor, mtval
\* otherwise
INTR_TVAL_REG_set(s, ex, val) ==
  IF intr_deleg_S(s, W(ex)) THEN [s EXCEPT !.csr.stval = val]
  ELSE [s EXCEPT !.csr.mtval = val]

\* paddr_read(addr, PTE_SIZE, ...): the 8 bytes at addr; memory that holds no
\* table reads as zero
paddr_read(s, addr) == IF addr \in DOMAIN s.pmem THEN s.pmem[addr] ELSE {}

\* is_in_mmio(addr): the page of device memory
is_in_mmio(addr) == Shr(addr, PGSHFT) = Shl({0}, 6)

---------------------------------------------------------------------------
(* mmu.c: the permission checker                                           *)

\* an accessed/dirty rule that wants the dirty bit for every access
update_ad_any_dirty(s, pte, type) ==
  s.config.SHARE /\ (~pte_a(pte) \/ ~pte_d(pte))

\* an accessed/dirty rule that never asks for the dirty bit
update_ad_accessed_only(s, pte, type) == s.config.SHARE /\ ~pte_a(pte)

\* update_ad of check_permission
update_ad(s, pte, type) ==
  IF s.config.SHARE
  THEN IF type = MEM_TYPE_WRITE THEN ~pte_a(pte) \/ ~pte_d(pte)
       ELSE ~pte_a(pte)
  ELSE FALSE

\* a checker for which execute permission never makes a page readable
can_load_no_mxr(s, pte, virt) ==
  IF s.config.RVH /\ s.glob.hlvx THEN pte_x(pte) ELSE pte_r(pte)

\* can_load of check_permission
can_load(s, pte, virt) ==
  IF s.config.RVH
  THEN IF s.glob.hlvx THEN pte_x(pte)
       ELSE pte_r(pte) \/ ((s.mstatus.mxr = 1 \/ (s.vsstatus.mxr = 1 /\ virt # 0))
                           /\ pte_x(pte))
  ELSE pte_r(pte) \/ (s.mstatus.mxr = 1 /\ pte_x(pte))

\* a checker without the rule on user pages accessed from S mode
perm_ok_no_sum(s, pte, ok, ifetch, virt, mode) ==
  ok /\ pte_v(pte) /\ ~(mode = MODE_U /\ ~pte_u(pte))

\* the local ok of check_permission after the validity and U/S rules
perm_ok(s, pte, ok, ifetch, virt, mode) ==
  LET sum == IF s.config.RVH /\ virt # 0 THEN s.vsstatus.sum ELSE s.mstatus.sum
  IN  /\ ok
      /\ pte_v(pte)
      /\ ~(mode = MODE_U /\ ~pte_u(pte))
      /\ ~(pte_u(pte) /\ mode = MODE_S /\ (sum = 0 \/ ifetch))

\* check_permission(pte, ok, vaddr, type, virt, mode); without CONFIG_RVH
\* the mode is computed inside and virt is not a parameter
check_permission(s, pte, ok, vaddr, type, virt, mode_arg, reads, perm) ==
  LET ifetch == type = MEM_TYPE_IFETCH
      mode   == IF s.config.RVH THEN mode_arg
                ELSE IF s.mstatus.mprv = 1 /\ ~ifetch THEN s.mstatus.mpp
                     ELSE s.cpu.mode
      ok3    == perm_ok(s, pte, ok, ifetch, virt, mode)
      upd    == update_ad(s, pte, type)
      pm     == Append(perm, [ok |-> ok, pte |-> pte, nread |-> Len(reads)])
      unamo  == [s EXCEPT !.cpu.amo = FALSE]
  IN  IF mode # MODE_U /\ mode # MODE_S THEN AssertFailed(s, reads, pm)
      ELSE IF ifetch
      THEN IF ~(ok3 /\ pte_x(pte) /\ ~pte_pad(pte)) \/ upd
           THEN IF s.cpu.amo THEN AssertFailed(s, reads, pm)
                ELSE longjmp_exception(
                       INTR_TVAL_REG_set(s, EX_IPF, tval_addr(s, vaddr)),
                       EX_IPF, reads, pm)
           ELSE Ret(s, {}, reads, pm)
      ELSE IF type = MEM_TYPE_READ
      THEN IF ~(ok3 /\ can_load(s, pte, virt) /\ ~pte_pad(pte)) \/ upd
           THEN LET ex == IF s.cpu.amo THEN EX_SPF ELSE EX_LPF
                IN  longjmp_exception(
                      INTR_TVAL_REG_set(unamo, ex, tval_addr(s, vaddr)),
                      ex, reads, pm)
           ELSE Ret(s, {}, reads, pm)
      ELSE IF ~(ok3 /\ pte_w(pte) /\ ~pte_pad(pte)) \/ upd
           THEN longjmp_exception(
                  INTR_TVAL_REG_set(unamo, EX_SPF, tval_addr(s, vaddr)),
                  EX_SPF, reads, pm)
           ELSE Ret(s, {}, reads, pm)

---------------------------------------------------------------------------
(* mmu.c: the forced-exception injector of guided execution                *)

\* int force_raise_pf_record(vaddr, type) on the statics last_addr and
\* force_count, and force_raise_gpf_record on g_last_addr and g_force_count:
\* the state left and the value returned
force_raise_pf_record(s, vaddr, type) ==
  LET n == (IF vaddr # s.glob.last_addr[type + 1] THEN 0
            ELSE s.glob.force_count[type + 1]) + 1
  IN  [s |-> [s EXCEPT !.glob.last_addr[type + 1] = vaddr,
                       !.glob.force_count[type + 1] = n],
       hit |-> n = 5]
force_raise_gpf_record(s, vaddr, type) ==
  LET n == (IF vaddr # s.glob.g_last_addr[type + 1] THEN 0
            ELSE s.glob.g_force_count[type + 1]) + 1
  IN  [s |-> [s EXCEPT !.glob.g_last_addr[type + 1] = vaddr,
                       !.glob.g_force_count[type + 1] = n],
       hit |-> n = 5]

\* the trap-value write of a forced instruction page fault: the guide's
\* vstval, stval or mtval by the delegation of EX_IPF
force_ipf_tval(s) ==
  LET g == s.cpu.execution_guide
  IN  IF s.config.RVH /\ intr_deleg_VS(s, W(EX_IPF))
      THEN [s EXCEPT !.csr.vstval = g.vstval]
      ELSE IF intr_deleg_S(s, W(EX_IPF)) THEN [s EXCEPT !.csr.stval = g.stval]
      ELSE [s EXCEPT !.csr.mtval = g.mtval]

\* force_raise_pf after force_raise_pf_record answered r: MEM_RET_OK on the
\* fifth call, else the trap value and the exception
force_pf_raise(r, ex, vaddr, type, reads, perm) ==
  IF r.hit THEN Ret(r.s, W(MEM_RET_OK), reads, perm)
  ELSE IF type = MEM_TYPE_IFETCH
  THEN longjmp_exception(force_ipf_tval(r.s), ex, reads, perm)
  ELSE longjmp_exception(INTR_TVAL_REG_set(r.s, ex, tval_addr(r.s, vaddr)),
                         ex, reads, perm)

\* a force_raise_pf that lets every call from the fifth on pass
force_raise_pf_from_fifth(s, vaddr, type, reads, perm) ==
  LET num == s.cpu.execution_guide.exception_num
      r   == force_raise_pf_record(s, vaddr, type)
      rr  == [r EXCEPT !.hit = r.s.glob.force_count[type + 1] >= 5]
  IN  IF s.cpu.guided_exec /\ s.cpu.execution_guide.force_raise_exception
      THEN IF type = MEM_TYPE_IFETCH /\ num = W(EX_IPF)
           THEN force_pf_raise(rr, EX_IPF, vaddr, type, reads, perm)
           ELSE IF type # MEM_TYPE_IFETCH /\ type = MEM_TYPE_READ
                   /\ num = W(EX_LPF)
           THEN force_pf_raise(rr, EX_LPF, vaddr, type, reads, perm)
           ELSE IF type = MEM_TYPE_WRITE /\ num = W(EX_SPF)
           THEN force_pf_raise(rr, EX_SPF, vaddr, type, reads, perm)
           ELSE Ret(s, W(MEM_RET_OK), reads, perm)
      ELSE Ret(s, W(MEM_RET_OK), reads, perm)

\* int force_raise_pf(vaddr, type)
force_raise_pf(s, vaddr, type, reads, perm) ==
  LET num == s.cpu.execution_guide.exception_num
  IN  IF s.cpu.guided_exec /\ s.cpu.execution_guide.force_raise_exception
      THEN IF type = MEM_TYPE_IFETCH /\ num = W(EX_IPF)
           THEN force_pf_raise(force_raise_pf_record(s, vaddr, type), EX_IPF,
                               vaddr, type, reads, perm)
           ELSE IF type # MEM_TYPE_IFETCH /\ type = MEM_TYPE_READ
                   /\ num = W(EX_LPF)
           THEN force_pf_raise(force_raise_pf_record(s, vaddr, type), EX_LPF,
                               vaddr, type, reads, perm)
           ELSE IF type = MEM_TYPE_WRITE /\ num = W(EX_SPF)
           THEN force_pf_raise(force_raise_pf_record(s, vaddr, type), EX_SPF,
                               vaddr, type, reads, perm)
           ELSE Ret(s, W(MEM_RET_OK), reads, perm)
      ELSE Ret(s, W(MEM_RET_OK), reads, perm)

\* the trap-value writes of a forced guest-page fault
force_gpf_tval(s, vaddr, type) ==
  LET g == s.cpu.execution_guide
  IN  IF type = MEM_TYPE_IFETCH
      THEN IF intr_deleg_S(s, W(EX_IGPF))
           THEN [s EXCEPT !.csr.stval = g.stval, !.csr.htval = g.htval]
           ELSE [s EXCEPT !.csr.mtval = g.mtval, !.csr.mtval2 = g.mtval2]
      ELSE [INTR_TVAL_REG_set(s, IF type = MEM_TYPE_READ THEN EX_LGPF
                                 ELSE EX_SPF, vaddr)
              EXCEPT !.csr.htval = g.htval, !.csr.mtval2 = g.mtval2]

\* force_raise_gpf after force_raise_gpf_record answered r
force_gpf_raise(r, ex, vaddr, type, reads, perm) ==
  IF r.hit THEN Ret(r.s, W(MEM_RET_OK), reads, perm)
  ELSE longjmp_exception(force_gpf_tval(r.s, vaddr, type), ex, reads, perm)

\* int force_raise_gpf(vaddr, type)  (CONFIG_RVH)
force_raise_gpf(s, vaddr, type, reads, perm) ==
  LET num == s.cpu.execution_guide.exception_num
  IN  IF s.cpu.guided_exec /\ s.cpu.execution_guide.force_raise_exception
      THEN IF type = MEM_TYPE_IFETCH /\ num = W(EX_IGPF)
           THEN force_gpf_raise(force_raise_gpf_record(s, vaddr, type),
                                EX_IGPF, vaddr, type, reads, perm)
           ELSE IF type # MEM_TYPE_IFETCH /\ type = MEM_TYPE_READ
                   /\ num = W(EX_LGPF)
           THEN force_gpf_raise(force_raise_gpf_record(s, vaddr, type),
                                EX_LGPF, vaddr, type, reads, perm)
           ELSE IF type = MEM_TYPE_WRITE /\ num = W(EX_SGPF)
           THEN force_gpf_raise(force_raise_gpf_record(s, vaddr, type),
                                EX_SGPF, vaddr, type, reads, perm)
           ELSE Ret(s, W(MEM_RET_OK), reads, perm)
      ELSE Ret(s, W(MEM_RET_OK), reads, perm)

---------------------------------------------------------------------------
(* mmu.c: the second-stage (guest-physical) translator, CONFIG_RVH         *)

\* bool has_two_stage_translation()
has_two_stage_translation(s) ==
  s.glob.hld_st \/ (s.mstatus.mprv = 1 /\ s.mstatus.mpv = 1) \/ s.cpu.v # 0

\* the guest-page-fault cause raise_guest_excep picks for the access type
guest_excep_cause(s, type) ==
  IF type = MEM_TYPE_IFETCH THEN EX_IGPF
  ELSE IF type = MEM_TYPE_READ
       THEN (IF s.cpu.amo THEN EX_SGPF ELSE EX_LGPF)
       ELSE EX_SGPF

\* the trap-value writes of a guest-page fault: stval and htval when the
\* cause is delegated to Supervisor, mtval and mtval2 otherwise
guest_tval_set(s, ex, vaddr, gpaddr) ==
  IF intr_deleg_S(s, W(ex))
  THEN [s EXCEPT !.csr.stval = vaddr, !.csr.htval = Shr(gpaddr, 2)]
  ELSE [s EXCEPT !.csr.mtval = vaddr, !.csr.mtval2 = Shr(gpaddr, 2)]

\* raise_guest_excep after the injector answered f
guest_excep_forced(f, gpaddr, vaddr, type) ==
  IF f.fault # "none" THEN f
  ELSE longjmp_exception(guest_tval_set(f.s, guest_excep_cause(f.s, type),
                                        vaddr, gpaddr),
                         guest_excep_cause(f.s, type), f.reads, f.perm)

\* void raise_guest_excep(gpaddr, vaddr, type)
raise_guest_excep(s, gpaddr, vaddr, type, reads, perm) ==
  guest_excep_forced(
    IF s.cpu.guided_exec /\ s.cpu.execution_guide.force_raise_exception
       /\ s.cpu.execution_guide.exception_num \in PfCases
    THEN force_raise_pf(s, vaddr, type, reads, perm)
    ELSE Ret(s, {}, reads, perm),
    gpaddr, vaddr, type)

\* the test of gpa_stage that a leaf lacks the permission of the access
g_leaf_refused(s, pte, type) ==
  IF type = MEM_TYPE_IFETCH \/ s.glob.hlvx THEN ~pte_x(pte)
  ELSE IF type = MEM_TYPE_READ
       THEN ~pte_r(pte) /\ ~(s.mstatus.mxr = 1 /\ pte_x(pte))
       ELSE ~(pte_r(pte) /\ pte_w(pte))

\* the address gpa_stage returns for a leaf found at level
g_leaf_addr(pg_base, gpaddr, level) ==
  IF level > 0
  THEN LET pg_mask == LowMask(VPNiSHFT(level))
       IN  IF And(pg_base, pg_mask) # {} THEN W(MEM_RET_FAIL)
           ELSE Or(Or(And(pg_base, Not(pg_mask)),
                      And(And(gpaddr, pg_mask), Not(PGMASK))),
                   And(gpaddr, PAGE_MASK))
  ELSE Or(pg_base, And(gpaddr, PAGE_MASK))

RECURSIVE g_walk(_, _, _, _, _, _, _, _)
\* the loop body of gpa_stage after the entry pte has been read
g_entry(s, pte, gpaddr, vaddr, type, level, reads, perm) ==
  IF pte_v(pte) /\ ~pte_r(pte) /\ ~pte_w(pte) /\ ~pte_x(pte)
  THEN g_walk(s, gpaddr, vaddr, type, level - 1, PGBASE(pte_ppn(pte)), reads,
              perm)
  ELSE IF ~pte_v(pte) \/ (~pte_r(pte) /\ pte_w(pte)) \/ ~pte_u(pte)
          \/ g_leaf_refused(s, pte, type)
  THEN raise_guest_excep(s, gpaddr, vaddr, type, reads, perm)
  ELSE Ret(s, g_leaf_addr(PGBASE(pte_ppn(pte)), gpaddr, level), reads, perm)

\* the loop body of gpa_stage reading the entry at p_pte
g_fetch(s, p_pte, pte, gpaddr, vaddr, type, level, reads, perm) ==
  g_entry(s, pte, gpaddr, vaddr, type, level,
          Append(reads, [stage |-> 2, level |-> level, addr |-> p_pte,
                         pte |-> pte]), perm)

\* the for loop of gpa_stage, entered at level with table base pg_base
g_walk(s, gpaddr, vaddr, type, level, pg_base, reads, perm) ==
  IF level < 0 THEN raise_guest_excep(s, gpaddr, vaddr, type, reads, perm)
  ELSE g_fetch(s, Add(pg_base, Shl(GVPNi(gpaddr, level), 3)),
               paddr_read(s, Add(pg_base, Shl(GVPNi(gpaddr, level), 3))),
               gpaddr, vaddr, type, level, reads, perm)

\* a second stage that takes 50 bits as the width of both modes
gpa_stage_width_50(s0, gpaddr, vaddr, type, reads, perm) ==
  LET s == [s0 EXCEPT !.glob.pt_level = 0]
      hmode == s.atp.hgatp.mode
      max_level == IF hmode = 9 THEN 4 ELSE IF hmode = 8 THEN 3 ELSE 0
  IN  IF hmode = 0 THEN Ret(s, gpaddr, reads, perm)
      ELSE IF hmode \in {8, 9} /\ And(gpaddr, Not(LowMask(50))) # {}
      THEN raise_guest_excep(s, gpaddr, vaddr, type, reads, perm)
      ELSE g_walk(s, gpaddr, vaddr, type, max_level - 1,
                  PGBASE(s.atp.hgatp.ppn), reads, perm)

\* paddr_t gpa_stage(gpaddr, vaddr, type)
gpa_stage(s0, gpaddr, vaddr, type, reads, perm) ==
  LET s == [s0 EXCEPT !.glob.pt_level = 0]
      hmode == s.atp.hgatp.mode
      max_level == IF hmode = 9 THEN 4 ELSE IF hmode = 8 THEN 3 ELSE 0
      width == IF hmode = 9 THEN 50 ELSE 41
  IN  IF hmode = 0 THEN Ret(s, gpaddr, reads, perm)
      ELSE IF hmode \in {8, 9} /\ And(gpaddr, Not(LowMask(width))) # {}
      THEN raise_guest_excep(s, gpaddr, vaddr, type, reads, perm)
      ELSE g_walk(s, gpaddr, vaddr, type, max_level - 1,
                  PGBASE(s.atp.hgatp.ppn), reads, perm)

---------------------------------------------------------------------------
(* mmu.c: the page-table walker                                            *)

\* word_t pte_read(addr, type, mode, vaddr): the entry, or the access fault
\* of a table in device memory (CONFIG_SHARE)
pte_read(s, addr, type, vaddr, reads, perm) ==
  IF s.config.SHARE /\ is_in_mmio(addr)
  THEN LET cause == IF type = MEM_TYPE_IFETCH THEN EX_IAF
                    ELSE IF type = MEM_TYPE_WRITE THEN EX_SAF ELSE EX_LAF
       IN  longjmp_exception(INTR_TVAL_REG_set(s, cause, tval_addr(s, vaddr)),
                             cause, reads, perm)
  ELSE Ret(s, paddr_read(s, addr), reads, perm)

\* virt of ptw
ptw_virt(s, type) ==
  IF ~s.config.RVH THEN 0
  ELSE IF type = MEM_TYPE_IFETCH THEN s.cpu.v
  ELSE IF s.glob.hld_st THEN 1
  ELSE IF s.mstatus.mprv = 1
       THEN Bit(s.mstatus.mpv # 0 /\ s.mstatus.mpp # MODE_M)
  ELSE s.cpu.v

\* mode of ptw
ptw_mode(s, type) ==
  IF type = MEM_TYPE_IFETCH THEN s.cpu.mode
  ELSE IF s.glob.hld_st THEN s.hstatus.spvp
  ELSE IF s.mstatus.mprv = 1 THEN s.mstatus.mpp
  ELSE s.cpu.mode

\* the checks of ptw that vaddr48 / vaddr39 equals vaddr
vaddr_sext_ok(vaddr, max_level) ==
  IF max_level = 4 THEN Sar(Shl(vaddr, 64 - 48), 64 - 48) = vaddr
  ELSE IF max_level = 3 THEN Sar(Shl(vaddr, 64 - 39), 64 - 39) = vaddr
  ELSE TRUE

\* the label bad of ptw: check_permission with ok = false, then MEM_RET_FAIL
ptw_bad(s, pte, vaddr, type, virt, mode, reads, perm) ==
  LET c == check_permission(s, pte, FALSE, vaddr, type, virt, mode, reads, perm)
  IN  IF c.fault # "none" THEN c
      ELSE Ret(c.s, W(MEM_RET_FAIL), reads, c.perm)

\* the fault of ptw for a leaf whose accessed or dirty bit is clear
\* (hardware update of a/d is not modelled by the code: !CONFIG_SHARE)
ptw_ad_fault(s, vaddr, type, reads, perm) ==
  LET ex == IF type = MEM_TYPE_IFETCH THEN EX_IPF
            ELSE IF type = MEM_TYPE_READ
                 THEN (IF s.cpu.amo THEN EX_SPF ELSE EX_LPF)
                 ELSE EX_SPF
      guest == IF intr_deleg_S(s, W(ex)) THEN [s EXCEPT !.csr.vstval = vaddr]
               ELSE [s EXCEPT !.csr.mtval = vaddr]
      plain == INTR_TVAL_REG_set(s, ex, vaddr)
  IN  IF s.config.RVH
      THEN longjmp_exception(IF s.cpu.v # 0 THEN guest ELSE plain, ex, reads, perm)
      ELSE IF type = MEM_TYPE_IFETCH
      THEN longjmp_exception(
             INTR_TVAL_REG_set([s EXCEPT !.csr.stval = vaddr], ex, vaddr),
             ex, reads, perm)
      ELSE longjmp_exception(plain, ex, reads, perm)

\* ptw from the accessed/dirty check on: the fault, or the address with
\* MEM_RET_OK
ptw_finish(s, pte, pg_base, vaddr, type, reads, perm) ==
  IF ~s.config.SHARE
     /\ (~pte_a(pte) \/ (~pte_d(pte) /\ type = MEM_TYPE_WRITE))
  THEN ptw_ad_fault(s, vaddr, type, reads, perm)
  ELSE Ret(s, Or(pg_base, W(MEM_RET_OK)), reads, perm)

\* ptw after gpa_stage answered g for the leaf address (virt)
ptw_staged(g, pte, vaddr, type) ==
  IF g.fault # "none" THEN g
  ELSE IF And(g.ret, Not(PAGE_MASK)) = W(MEM_RET_FAIL)
  THEN Ret(g.s, W(MEM_RET_FAIL), g.reads, g.perm)
  ELSE ptw_finish(g.s, pte, And(g.ret, Not(PAGE_MASK)), vaddr, type,
                  g.reads, g.perm)

\* a splice that keeps the leaf's page number and drops the address bits
spliced_base_truncated(pte, vaddr, level) == PGBASE(pte_ppn(pte))

\* pg_base of ptw after the superpage splice
spliced_base(pte, vaddr, level) ==
  IF level > 0
  THEN Or(And(PGBASE(pte_ppn(pte)), Not(LowMask(VPNiSHFT(level)))),
          And(And(vaddr, LowMask(VPNiSHFT(level))), Not(PGMASK)))
  ELSE PGBASE(pte_ppn(pte))

\* ptw after check_permission let the leaf pass: pt_level, superpage splice,
\* second stage
ptw_permitted(s, pte, level, vaddr, type, virt, mode, reads, perm) ==
  IF level > 0 /\ And(PGBASE(pte_ppn(pte)), LowMask(VPNiSHFT(level))) # {}
  THEN ptw_bad(s, pte, vaddr, type, virt, mode, reads, perm)
  ELSE IF virt # 0
  THEN ptw_staged(gpa_stage(s, Or(spliced_base(pte, vaddr, level),
                                  And(vaddr, PAGE_MASK)),
                            vaddr, type, reads, perm),
                  pte, vaddr, type)
  ELSE ptw_finish(s, pte, spliced_base(pte, vaddr, level), vaddr, type,
                  reads, perm)

\* ptw after check_permission answered c for the leaf found at level
ptw_checked(c, pte, level, vaddr, type, virt, mode, reads) ==
  IF c.fault # "none" THEN c
  ELSE ptw_permitted([c.s EXCEPT !.glob.pt_level = level], pte, level, vaddr,
                     type, virt, mode, reads, c.perm)

\* ptw after the loop found a leaf at level
ptw_leaf(s, pte, level, vaddr, type, virt, mode, reads, perm) ==
  ptw_checked(check_permission(s, pte, TRUE, vaddr, type, virt, mode, reads,
                               perm),
              pte, level, vaddr, type, virt, mode, reads)

RECURSIVE ptw_walk(_, _, _, _, _, _, _, _, _)
\* a walker that stops at every valid entry, pointer or not
ptw_entry_stops_at_pointer(s, pte, vaddr, type, virt, mode, level, reads, perm) ==
  IF ~pte_v(pte) \/ (~pte_r(pte) /\ pte_w(pte))
  THEN ptw_bad(s, pte, vaddr, type, virt, mode, reads, perm)
  ELSE ptw_leaf(s, pte, level, vaddr, type, virt, mode, reads, perm)

\* a loop body that goes on from a pointer read at level 0
ptw_entry_below_zero(s, pte, vaddr, type, virt, mode, level, reads, perm) ==
  IF ~pte_v(pte) \/ (~pte_r(pte) /\ pte_w(pte))
  THEN ptw_bad(s, pte, vaddr, type, virt, mode, reads, perm)
  ELSE IF pte_r(pte) \/ pte_x(pte) \/ pte_pad(pte)
  THEN ptw_leaf(s, pte, level, vaddr, type, virt, mode, reads, perm)
  ELSE IF level - 1 < -1
  THEN ptw_bad(s, pte, vaddr, type, virt, mode, reads, perm)
  ELSE ptw_walk(s, vaddr, type, virt, mode, level - 1, PGBASE(pte_ppn(pte)),
                reads, perm)

\* the loop body of ptw after the entry pte has been read at p_pte
ptw_entry(s, pte, vaddr, type, virt, mode, level, reads, perm) ==
  IF ~pte_v(pte) \/ (~pte_r(pte) /\ pte_w(pte))
  THEN ptw_bad(s, pte, vaddr, type, virt, mode, reads, perm)
  ELSE IF pte_r(pte) \/ pte_x(pte) \/ pte_pad(pte)
  THEN ptw_leaf(s, pte, level, vaddr, type, virt, mode, reads, perm)
  ELSE IF level - 1 < 0
  THEN ptw_bad(s, pte, vaddr, type, virt, mode, reads, perm)
  ELSE ptw_walk(s, vaddr, type, virt, mode, level - 1, PGBASE(pte_ppn(pte)),
                reads, perm)

\* the loop body of ptw after pte_read answered r for the entry at p_pte
ptw_fetched(r, p_pte, vaddr, type, virt, mode, level) ==
  IF r.fault # "none" THEN r
  ELSE ptw_entry(r.s, r.ret, vaddr, type, virt, mode, level,
                 Append(r.reads, [stage |-> 1, level |-> level, addr |-> p_pte,
                                  pte |-> r.ret]), r.perm)

\* the loop body of ptw after gpa_stage answered g for the entry's address
ptw_located(g, vaddr, type, virt, mode, level) ==
  IF g.fault # "none" THEN g
  ELSE ptw_fetched(pte_read(g.s, g.ret, type, vaddr, g.reads, g.perm), g.ret,
                   vaddr, type, virt, mode, level)

\* the for loop of ptw, entered at level with table base pg_base
ptw_walk(s, vaddr, type, virt, mode, level, pg_base, reads, perm) ==
  ptw_located(IF virt # 0
              THEN gpa_stage(s, Add(pg_base, Shl(VPNi(vaddr, level), 3)),
                             vaddr, type, reads, perm)
              ELSE Ret(s, Add(pg_base, Shl(VPNi(vaddr, level), 3)), reads, perm),
              vaddr, type, virt, mode, level)

\* ptw for a guest access with vsatp.mode = 0, after gpa_stage answered g
ptw_bare(g) ==
  IF g.fault # "none" THEN g
  ELSE Ret(g.s, And(g.ret, Not(PAGE_MASK)), g.reads, g.perm)

\* the root register and the number of levels of the walk
ptw_root(s, virt) == IF virt # 0 THEN s.atp.vsatp ELSE s.atp.satp
ptw_max_level(s, virt) == IF ptw_root(s, virt).mode = 8 THEN 3 ELSE 4

\* ptw once virt and mode are settled
ptw_from(s, vaddr, type, junk, virt, mode) ==
  IF virt # 0 /\ s.atp.vsatp.mode = 0
  THEN ptw_bare(gpa_stage(s, vaddr, vaddr, type, <<>>, <<>>))
  ELSE IF ~vaddr_sext_ok(vaddr, ptw_max_level(s, virt))
  THEN ptw_bad(s, junk, vaddr, type, virt, mode, <<>>, <<>>)
  ELSE ptw_walk(s, vaddr, type, virt, mode, ptw_max_level(s, virt) - 1,
                PGBASE(ptw_root(s, virt).ppn), <<>>, <<>>)

\* paddr_t ptw(vaddr, type); junk is what the local pte holds before any
\* entry has been read into it
ptw(s, vaddr, type, junk) ==
  ptw_from(s, vaddr, type, junk, ptw_virt(s, type),
           IF s.config.RVH THEN ptw_mode(s, type) ELSE s.cpu.mode)

---------------------------------------------------------------------------
(* mmu.c: the entry points                                                 *)

\* an alignment check that tells a store from a load by the type alone
isa_misalign_data_addr_check_by_type(s, vaddr, len, type) ==
  IF And(vaddr, W(len - 1)) # {} /\ s.config.AC_SOFT
  THEN LET ex == IF type = MEM_TYPE_WRITE THEN EX_SAM ELSE EX_LAM
       IN  longjmp_exception(INTR_TVAL_REG_set(s, ex, tval_addr(s, vaddr)),
                             ex, <<>>, <<>>)
  ELSE Ret(s, {}, <<>>, <<>>)

\* void isa_misalign_data_addr_check(vaddr, len, type)
isa_misalign_data_addr_check(s, vaddr, len, type) ==
  IF And(vaddr, W(len - 1)) # {} /\ s.config.AC_SOFT
  THEN LET ex == IF s.cpu.amo \/ type = MEM_TYPE_WRITE THEN EX_SAM ELSE EX_LAM
       IN  longjmp_exception(INTR_TVAL_REG_set(s, ex, tval_addr(s, vaddr)),
                             ex, <<>>, <<>>)
  ELSE Ret(s, {}, <<>>, <<>>)

\* enable_39 / enable_48 of isa_mmu_check
enable_39(s) ==
  s.atp.satp.mode = 8
  \/ (s.config.RVH /\ s.cpu.v # 0
      /\ (s.atp.vsatp.mode = 8 \/ s.atp.hgatp.mode = 8))
enable_48(s) ==
  s.atp.satp.mode = 9
  \/ (s.config.RVH /\ s.cpu.v # 0
      /\ (s.atp.vsatp.mode = 9 \/ s.atp.hgatp.mode = 9))

\* vm_enable of isa_mmu_check
vm_enable(s, is_ifetch) ==
  (IF s.mstatus.mprv = 1 /\ ~is_ifetch THEN s.mstatus.mpp ELSE s.cpu.mode)
    < MODE_M
  /\ (enable_39(s) \/ enable_48(s))

\* va_msbs_ok of isa_mmu_check as the first block leaves it
va_msbs_ok_1(s, vaddr, is_ifetch) ==
  IF vm_enable(s, is_ifetch)
  THEN IF enable_48(s)
       THEN Shr(vaddr, 47) = LowMask(63 - 47 + 1) \/ Shr(vaddr, 47) = {}
       ELSE Shr(vaddr, 38) = LowMask(63 - 38 + 1) \/ Shr(vaddr, 38) = {}
  ELSE TRUE

\* the guest-physical range test of isa_mmu_check (cpu.v && vsatp->mode == 0):
\* "ok" when the address is within maxgpa, "gpf" when it is not, "skip" when
\* the block does not apply
gpa_range(s, vaddr) ==
  IF s.config.RVH /\ s.cpu.v # 0 /\ s.atp.vsatp.mode = 0
  THEN IF enable_48(s)
       THEN (IF And(vaddr, Not(LowMask(50))) = {} THEN "ok" ELSE "gpf")
       ELSE IF enable_39(s)
       THEN (IF And(vaddr, Not(LowMask(41))) = {} THEN "ok" ELSE "gpf")
       ELSE "skip"
  ELSE "skip"

\* the branch of isa_mmu_check taken when va_msbs_ok is false
mmu_check_fault(s, vaddr, type, gpf) ==
  LET is_ifetch == type = MEM_TYPE_IFETCH
      pf  == IF is_ifetch THEN EX_IPF
             ELSE IF type = MEM_TYPE_READ
                  THEN (IF s.cpu.amo THEN EX_SPF ELSE EX_LPF)
                  ELSE EX_SPF
      gex == guest_excep_cause(s, type)
      vs  == IF intr_deleg_S(s, W(pf)) THEN [s EXCEPT !.csr.vstval = vaddr]
             ELSE [s EXCEPT !.csr.mtval = vaddr]
  IN  IF s.config.RVH /\ (s.glob.hld_st \/ gpf)
      THEN longjmp_exception(guest_tval_set(s, gex, vaddr, vaddr), gex,
                             <<>>, <<>>)
      ELSE IF s.config.RVH /\ s.cpu.v # 0
      THEN longjmp_exception(vs, pf, <<>>, <<>>)
      ELSE longjmp_exception(
             INTR_TVAL_REG_set(s, pf, IF s.config.RVH /\ is_ifetch THEN vaddr
                                      ELSE tval_addr(s, vaddr)),
             pf, <<>>, <<>>)

\* the value isa_mmu_check returns when it raises nothing
mmu_check_state(s, is_ifetch) ==
  LET tr(x) == IF x # 0 THEN MMU_TRANSLATE ELSE MMU_DIRECT
  IN  IF s.config.RVH /\ s.cpu.v # 0 /\ is_ifetch THEN tr(s.mmu.h)
      ELSE IF is_ifetch THEN tr(s.mmu.ifetch)
      ELSE IF s.config.RVH /\ s.glob.hld_st THEN tr(s.mmu.h)
      ELSE tr(s.mmu.data)

\* a check that ends the atomic operation when it raises the fault
mmu_check_aligned_clears_amo(m, s, vaddr, type, rng) ==
  IF type # MEM_TYPE_IFETCH /\ m.fault # "none" THEN m
  ELSE IF rng # "ok" /\ ~va_msbs_ok_1(s, vaddr, type = MEM_TYPE_IFETCH)
  THEN [mmu_check_fault(s, vaddr, type, rng = "gpf") EXCEPT !.s.cpu.amo = FALSE]
  ELSE Ret(s, W(mmu_check_state(s, type = MEM_TYPE_IFETCH)), <<>>, <<>>)

\* isa_mmu_check after the alignment check answered m
mmu_check_aligned(m, s, vaddr, type, rng) ==
  IF type # MEM_TYPE_IFETCH /\ m.fault # "none" THEN m
  ELSE IF rng # "ok" /\ ~va_msbs_ok_1(s, vaddr, type = MEM_TYPE_IFETCH)
  THEN mmu_check_fault(s, vaddr, type, rng = "gpf")
  ELSE Ret(s, W(mmu_check_state(s, type = MEM_TYPE_IFETCH)), <<>>, <<>>)

\* int isa_mmu_check(vaddr, len, type)
isa_mmu_check(s, vaddr, len, type) ==
  mmu_check_aligned(isa_misalign_data_addr_check(s, vaddr, len, type), s,
                    vaddr, type, gpa_range(s, vaddr))

\* isa_mmu_translate after force_raise_gpf answered g (CONFIG_RVH)
translate_gforced(g, ret) ==
  IF g.fault # "none" THEN g
  ELSE IF g.ret # W(MEM_RET_OK) THEN Ret(g.s, W(MEM_RET_FAIL), g.reads, g.perm)
  ELSE Ret(g.s, ret, g.reads, g.perm)

\* isa_mmu_translate after force_raise_pf answered f
translate_forced(f, ret, vaddr, type) ==
  IF f.fault # "none" THEN f
  ELSE IF f.ret # W(MEM_RET_OK) THEN Ret(f.s, W(MEM_RET_FAIL), f.reads, f.perm)
  ELSE IF f.s.config.RVH
  THEN translate_gforced(force_raise_gpf(f.s, vaddr, type, f.reads, f.perm), ret)
  ELSE Ret(f.s, ret, f.reads, f.perm)

\* isa_mmu_translate after ptw answered p
translate_walked(p, vaddr, type) ==
  IF p.fault # "none" THEN p
  ELSE IF p.ret # W(MEM_RET_FAIL)
  THEN translate_forced(force_raise_pf(p.s, vaddr, type, p.reads, p.perm),
                        p.ret, vaddr, type)
  ELSE p

\* a translation that takes an access ending on the page boundary for one
\* that crosses it
isa_mmu_translate_ge(s, vaddr, len, type, junk) ==
  IF Val(And(vaddr, PAGE_MASK)) + len >= PAGE_SIZE
  THEN Ret(s, W(MEM_RET_CROSS_PAGE), <<>>, <<>>)
  ELSE translate_walked(ptw(s, vaddr, type, junk), vaddr, type)

\* paddr_t isa_mmu_translate(vaddr, len, type)
isa_mmu_translate(s, vaddr, len, type, junk) ==
  IF Val(And(vaddr, PAGE_MASK)) + len > PAGE_SIZE
  THEN Ret(s, W(MEM_RET_CROSS_PAGE), <<>>, <<>>)
  ELSE translate_walked(ptw(s, vaddr, type, junk), vaddr, type)

---------------------------------------------------------------------------
(* mmu.c: physical memory protection, CONFIG_RV_PMP_CHECK                  *)

\* pmpaddr_from_index(i), pmpcfg_from_index(i): the registers of entry i
pmpaddr_from_index(s, i) == s.csr.pmpaddr[i + 1]
pmpcfg_from_index(s, i) == s.csr.pmpcfg[i + 1]

\* pmp_tor_mask() of a platform whose regions have a granularity of 4 bytes
pmp_tor_mask == Bits

\* the effective mode of isa_pmp_check_permission
pmp_mode(s, type, out_mode) ==
  IF out_mode = MODE_M
  THEN IF s.mstatus.mprv = 1 /\ type # MEM_TYPE_IFETCH THEN s.mstatus.mpp
       ELSE s.cpu.mode
  ELSE out_mode

\* mask of isa_pmp_check_permission: the address bits a NA4 or NAPOT entry
\* compares
pmp_mask(pmpaddr, is_na4) ==
  LET m == Or(Or(Shl(pmpaddr, 1), IF is_na4 THEN {} ELSE {0}),
              Not(pmp_tor_mask))
  IN  Shl(Not(And(m, Not(Add(m, {0})))), PMP_SHIFT)

\* match of the inner loop for the sector starting at cur_addr
pmp_sector_match(cur_addr, base, tor, mask, is_tor) ==
  IF is_tor THEN ULe(base, cur_addr) /\ ULt(cur_addr, tor)
  ELSE And(Xor(cur_addr, tor), mask) = {}

\* the values match takes over the offsets 0, 4, 8, ... below len
pmp_matches(addr, len, base, tor, cfg, pmpaddr) ==
  {pmp_sector_match(Add(addr, W(o)), base, tor,
                    pmp_mask(pmpaddr, And(cfg, PMP_A) = PMP_NA4),
                    And(cfg, PMP_A) = PMP_TOR)
     : o \in {k \in 0 .. (len - 1) : k % Pow2Tab[PMP_SHIFT + 1] = 0}}

\* a full-match rule under which M mode passes whatever the lock bit is
pmp_granted_ignores_lock(mode, cfg, type) ==
  \/ mode = MODE_M
  \/ /\ type \in {MEM_TYPE_READ, MEM_TYPE_IFETCH_READ, MEM_TYPE_WRITE_READ}
     /\ And(cfg, PMP_R) # {}
  \/ type = MEM_TYPE_WRITE /\ And(cfg, PMP_W) # {}
  \/ type = MEM_TYPE_IFETCH /\ And(cfg, PMP_X) # {}

\* the value returned for an entry that matches every sector
pmp_granted(mode, cfg, type) ==
  \/ mode = MODE_M /\ And(cfg, PMP_L) = {}
  \/ /\ type \in {MEM_TYPE_READ, MEM_TYPE_IFETCH_READ, MEM_TYPE_WRITE_READ}
     /\ And(cfg, PMP_R) # {}
  \/ type = MEM_TYPE_WRITE /\ And(cfg, PMP_W) # {}
  \/ type = MEM_TYPE_IFETCH /\ And(cfg, PMP_X) # {}

RECURSIVE pmp_scan(_, _, _, _, _, _, _)
\* the body of the loop over the entries for entry i, whose sectors matched
\* as matches says
pmp_entry(s, i, tor, cfg, matches, addr, len, type, mode) ==
  IF And(cfg, PMP_A) # {} /\ TRUE \in matches
  THEN IF FALSE \in matches THEN FALSE ELSE pmp_granted(mode, cfg, type)
  ELSE pmp_scan(s, i + 1, tor, addr, len, type, mode)

\* the loop over the entries from entry i on, and the return after it
pmp_scan(s, i, base, addr, len, type, mode) ==
  IF i >= s.config.RV_PMP_ACTIVE_NUM THEN mode = MODE_M
  ELSE pmp_entry(s, i,
                 Shl(And(pmpaddr_from_index(s, i), pmp_tor_mask), PMP_SHIFT),
                 pmpcfg_from_index(s, i),
                 pmp_matches(addr, len, base,
                             Shl(And(pmpaddr_from_index(s, i), pmp_tor_mask),
                                 PMP_SHIFT),
                             pmpcfg_from_index(s, i),
                             pmpaddr_from_index(s, i)),
                 addr, len, type, mode)

---------------------------------------------------------------------------
(* mmu.c: the PMP-table extension, CONFIG_PMPTABLE_EXTENSION               *)

\* a - b modulo 2^64
Sub(a, b) == Add(a, Add(Not(b), {0}))

\* host_read(guest_to_host(addr), 8) and host_read(guest_to_host(addr), 1):
\* raw reads of memory, the byte taken from the 8-byte word holding it
host_read_8(s, addr) == paddr_read(s, addr)
host_read_1(s, addr) ==
  And(Shr(paddr_read(s, And(addr, Not(LowMask(3)))),
          8 * Val(And(addr, LowMask(3)))),
      LowMask(8))

\* static bool napot_decode(addr, pmpaddr)
napot_decode(addr, pmpaddr) ==
  /\ ULe(Shl(And(pmpaddr, Add(pmpaddr, {0})), PMP_SHIFT), addr)
  /\ ULt(addr, Shl(Or(pmpaddr, Add(pmpaddr, {0})), PMP_SHIFT))

\* s_flag and e_flag of pmp_address_match for the address a
pmp_address_flag(base, a, pmpaddr, addr_mode) ==
  IF addr_mode = PMP_TOR
  THEN ULe(base, a) /\ ULt(a, Shl(pmpaddr, PMP_SHIFT))
  ELSE IF addr_mode = PMP_NA4
  THEN /\ ULe(Shl(pmpaddr, PMP_SHIFT), a)
       /\ ULt(a, Add(Shl(pmpaddr, PMP_SHIFT), Int1Shl(PMP_SHIFT)))
  ELSE IF addr_mode = PMP_NAPOT THEN napot_decode(a, pmpaddr)
  ELSE FALSE

\* static uint8_t pmp_address_match(base, addr, len, pmpaddr, addr_mode)
pmp_address_match(base, addr, len, pmpaddr, addr_mode) ==
  Bit(pmp_address_flag(base, addr, pmpaddr, addr_mode))
    + Bit(pmp_address_flag(base, Add(addr, W(len)), pmpaddr, addr_mode))

\* the test of the permission nibble perm against the access type
pmptable_perm_ok(perm, type) ==
  IF type \in {MEM_TYPE_READ, MEM_TYPE_IFETCH_READ, MEM_TYPE_WRITE_READ}
  THEN 0 \in perm
  ELSE IF type = MEM_TYPE_WRITE THEN 1 \in perm
  ELSE IF type = MEM_TYPE_IFETCH THEN 2 \in perm
  ELSE FALSE

\* bool pmpcfg_check_permission(pmpcfg, type, out_mode)
pmpcfg_check_permission(pmpcfg, type, out_mode) ==
  IF out_mode = MODE_M THEN TRUE
  ELSE IF type \in {MEM_TYPE_READ, MEM_TYPE_IFETCH_READ, MEM_TYPE_WRITE_READ}
  THEN And(pmpcfg, PMP_R) # {}
  ELSE IF type = MEM_TYPE_WRITE THEN And(pmpcfg, PMP_W) # {}
  ELSE IF type = MEM_TYPE_IFETCH THEN And(pmpcfg, PMP_X) # {}
  ELSE FALSE

\* a leaf lookup that always takes the low nibble of the byte
pmptable_leaf_perm_low(s, root_pte, offset) ==
  And(host_read_1(s, Add(Add(Shl(Shr(root_pte, 5), 12),
                             Shl(And(Shr(offset, 16), LowMask(9)), 3)),
                         Shr(And(Shr(offset, 12), LowMask(4)), 1))),
      LowMask(4))

\* perm of pmptable_check_permission when the low four bits of the root
\* entry are 0001: the nibble of the leaf table for the page
pmptable_leaf_perm(s, root_pte, offset) ==
  LET page_index == And(Shr(offset, 12), LowMask(4))
      leaf_pte == host_read_1(s, Add(Add(Shl(Shr(root_pte, 5), 12),
                                         Shl(And(Shr(offset, 16), LowMask(9)), 3)),
                                     Shr(page_index, 1)))
  IN  IF 0 \in page_index THEN Shr(leaf_pte, 4) ELSE And(leaf_pte, LowMask(4))

\* pmptable_check_permission after the root entry has been read
pmptable_rooted(s, root_pte, offset, type) ==
  IF And(root_pte, LowMask(4)) = {0}
  THEN pmptable_perm_ok(pmptable_leaf_perm(s, root_pte, offset), type)
  ELSE IF 0 \in root_pte
  THEN pmptable_perm_ok(And(Shr(root_pte, 1), LowMask(4)), type)
  ELSE FALSE

\* bool pmptable_check_permission(offset, root_table_base, type, out_mode)
pmptable_check_permission(s, offset, root_table_base, type, out_mode) ==
  IF out_mode = MODE_M THEN TRUE
  ELSE pmptable_rooted(s,
         host_read_8(s, Add(root_table_base,
                            Shl(And(Shr(offset, 25), LowMask(9)), 3))),
         offset, type)

\* the branch of the loop for an entry both ends of the access match
pmptable_matched(s, i, base, pmpcfg, pmpaddr, addr, type, out_mode) ==
  IF And(pmpcfg, PMP_T) # {}
  THEN pmptable_check_permission(s,
         IF And(pmpcfg, PMP_A) = PMP_TOR THEN Sub(addr, base)
         ELSE Sub(addr, Shl(pmpaddr, PMP_SHIFT)),
         Shl(pmpaddr_from_index(s, i + 1), 12), type, out_mode)
  ELSE pmpcfg_check_permission(pmpcfg, type, out_mode)

RECURSIVE pmptable_scan(_, _, _, _, _, _, _)
\* the body of the loop for entry i, whose ends matched as match_ret counts
pmptable_entry(s, i, base, pmpcfg, pmpaddr, match_ret, addr, len, type, out_mode) ==
  IF And(pmpcfg, PMP_A) = {}
  THEN pmptable_scan(s, i + 1, Shl(pmpaddr, PMP_SHIFT), addr, len, type,
                     out_mode)
  ELSE IF match_ret = 1 THEN FALSE
  ELSE IF match_ret = 0
  THEN pmptable_scan(s, i + 1, base, addr, len, type, out_mode)
  ELSE pmptable_matched(s, i, base, pmpcfg, pmpaddr, addr, type, out_mode)

\* the loop of the PMP-table build from entry i on, and the return after it
pmptable_scan(s, i, base, addr, len, type, out_mode) ==
  IF i >= s.config.RV_PMP_ACTIVE_NUM THEN TRUE
  ELSE pmptable_entry(s, i, base, pmpcfg_from_index(s, i),
                      pmpaddr_from_index(s, i),
                      pmp_address_match(base, addr, len,
                                        pmpaddr_from_index(s, i),
                                        And(pmpcfg_from_index(s, i), PMP_A)),
                      addr, len, type, out_mode)

\* a checker that scans the entries even when none is active
isa_pmp_check_permission_scans_always(s, addr, len, type, out_mode) ==
  IF s.config.RV_PMP_CHECK
  THEN pmp_scan(s, 0, {}, addr, len, type, pmp_mode(s, type, out_mode))
  ELSE IF s.config.PMPTABLE_EXTENSION
  THEN pmptable_scan(s, 0, {}, addr, len, type, out_mode)
  ELSE TRUE

\* bool isa_pmp_check_permission(addr, len, type, out_mode)
isa_pmp_check_permission(s, addr, len, type, out_mode) ==
  IF s.config.RV_PMP_CHECK
  THEN IF s.config.RV_PMP_ACTIVE_NUM = 0 THEN TRUE
       ELSE pmp_scan(s, 0, {}, addr, len, type, pmp_mode(s, type, out_mode))
  ELSE IF s.config.PMPTABLE_EXTENSION
  THEN IF s.config.RV_PMP_ACTIVE_NUM = 0 THEN TRUE
       ELSE pmptable_scan(s, 0, {}, addr, len, type, out_mode)
  ELSE TRUE

---------------------------------------------------------------------------
(* Bounds and input sets                                                   *)

\* the longest sequence of raise_intr calls explored from an initial state
MaxCalls == 1

\* the longest sequence of traps explored by the specification of sequences
MaxTraps == 3

\* the longest sequence of calls of force_raise_pf explored
MaxForced == 6

\* return addresses passed to raise_intr
Epcs == {W(128), W(132)}

\* causes passed to raise_intr: exceptions and interrupts of every class
Causes(rvh) ==
  {Exc(EX_II), Exc(EX_BP), Exc(EX_IPF), Irq(IRQ_STIP), Irq(IRQ_MTIP)}
  \cup (IF rvh THEN {Exc(EX_LGPF), Irq(IRQ_VSTIP)} ELSE {})

\* values of the delegation registers
MEDELEG_SET == {EX_BP, EX_IPF, EX_LGPF}
HEDELEG_SET == {EX_II, EX_BP}
MIDELEG_SET == {IRQ_STIP, IRQ_VSTIP}
HIDELEG_SET == {IRQ_VSTIP, IRQ_MTIP}

\* interrupts a device or a hart can make pending, and values of mie,
\* mideleg and hideleg for the query
PendingIrqs(rvh) ==
  {IRQ_MTIP, IRQ_SEIP, IRQ_STIP} \cup (IF rvh THEN {IRQ_VSTIP} ELSE {})
MIE_SETS == {{}, {IRQ_STIP, IRQ_VSTIP}, 0 .. 13}
MIDELEG_SETS == {{}, {IRQ_SEIP}, {IRQ_STIP, IRQ_SEIP, IRQ_VSTIP}}
HIDELEG_SETS(rvh) ==
  IF rvh THEN {{}, {IRQ_VSTIP}, {IRQ_VSTIP, IRQ_SEIP}} ELSE {{}}

\* (cpu.mode, cpu.v): guest mode only below M and only with the H extension
ModeV(rvh) ==
  {<<MODE_U, 0>>, <<MODE_S, 0>>, <<MODE_M, 0>>}
  \cup (IF rvh THEN {<<MODE_U, 1>>, <<MODE_S, 1>>} ELSE {})

Builds == {[RVH |-> b, RV_SV48 |-> TRUE, TVAL_EX_II |-> TRUE,
            RV_SDTRIG |-> TRUE, RV_SSCOFPMF |-> FALSE, SHARE |-> TRUE,
            AC_SOFT |-> TRUE, USE_XS_ARCH_CSRS |-> FALSE] : b \in BOOLEAN}

\* builds for the translation functions
BuildsMmu == {[RVH |-> b, RV_SV48 |-> TRUE, TVAL_EX_II |-> TRUE,
               RV_SDTRIG |-> TRUE, RV_SSCOFPMF |-> FALSE, SHARE |-> sh,
               AC_SOFT |-> TRUE, USE_XS_ARCH_CSRS |-> FALSE]
                : b \in BOOLEAN, sh \in BOOLEAN}

\* virtual addresses: one mapped by the tables, and addresses with bit 39,
\* bit 48, bits 38..63 and bits 40..63 set
MappedVa == {4, 12, 13, 22, 30}
Vaddrs == {MappedVa, {39}, {48}, 38 .. 63, 40 .. 63}
Lens == {8}
Junks == {{}, {0, 1, 3, 6}}

\* page numbers: first-stage tables from S1Root on, the data page, the
\* second-stage root and tables, and the distance from a guest page to the
\* host page the second stage maps it to
S1Root == 1
DataPage == 5
GRoot == 8
GOff == 32

PtrPte(ppn) == {0} \cup Shl(W(ppn), 10)
LeafPte(ppn, flags) == flags \cup Shl(W(ppn), 10)
EntryAddr(ppn, idx) == Or(Shl(W(ppn), PGSHFT), Shl(idx, 3))

\* root entries with r = w = x = 0 and every choice of v, u, a and a
\* reserved high bit, and two leaves
RootPointers == {Shl(W(S1Root + 1), 10) \cup f : f \in SUBSET {0, 4, 6, 54}}
RootLeaves == {LeafPte(512, {0, 1, 2, 3, 6, 7}), LeafPte(513, {0, 1, 3, 6, 7})}
LeafFlags == {{0, 1, 2, 3, 6, 7}, {0, 1, 2, 3, 4, 6, 7}}

\* the first-stage tables of an n-level scheme mapping MappedVa, stored from
\* page S1Root + off on: the root entry, pointers, and the level-0 leaf
S1Entries(n, off, rootpte, leafpte) ==
  {<<EntryAddr(S1Root + off + (n - 1 - L), VPNi(MappedVa, L)),
     IF L = n - 1 THEN rootpte
     ELSE IF L > 0 THEN PtrPte(S1Root + (n - 1 - L) + 1)
     ELSE leafpte>> : L \in 0 .. (n - 1)}

\* the second-stage tables: guest pages 1 .. DataPage to host pages GOff up,
\* and the guest page of MappedVa
GEntries ==
  {<<EntryAddr(GRoot, W(0)), PtrPte(12)>>,
   <<EntryAddr(12, W(0)), PtrPte(13)>>,
   <<EntryAddr(GRoot, GVPNi(MappedVa, 2)), PtrPte(14)>>,
   <<EntryAddr(14, GVPNi(MappedVa, 1)), PtrPte(15)>>,
   <<EntryAddr(15, GVPNi(MappedVa, 0)), LeafPte(GOff + 8, {0, 1, 2, 3, 4, 6, 7})>>}
  \cup {<<EntryAddr(13, W(i)), LeafPte(GOff + i, {0, 1, 2, 3, 4, 6, 7})>>
          : i \in 1 .. DataPage}

\* physical memory holding the tables
MemOf(E) == [a \in {e[1] : e \in E} |-> (CHOOSE e \in E : e[1] = a)[2]]
Tables(wm, rootpte, leafpte) ==
  LET n == IF wm = 8 THEN 3 ELSE 4
  IN  MemOf(S1Entries(n, 0, rootpte, leafpte)
            \cup S1Entries(n, GOff, rootpte, leafpte) \cup GEntries)

\* leaves stored at level L > 0: one whose page number is a multiple of
\* 2^(9 L) and one that is off by one page
SuperLeaves(L) ==
  {LeafPte(Pow2Tab[9 * L + 1], {0, 1, 2, 3, 6, 7}),
   LeafPte(Pow2Tab[9 * L + 1] + 1, {0, 1, 2, 3, 6, 7})}

\* second-stage entries mapping the guest page a level-1 superpage at guest
\* page 512 yields for MappedVa, with a 4 KiB leaf
GSuperEntries ==
  {<<EntryAddr(12, W(1)), PtrPte(16)>>,
   <<EntryAddr(16, VPNi(MappedVa, 0)),
     LeafPte(GOff + 9, {0, 1, 2, 3, 4, 6, 7})>>}

\* the tables of Tables with the entry of level L on the path of MappedVa
\* replaced by the leaf pte
SuperTables(wm, L, pte) ==
  LET n == IF wm = 8 THEN 3 ELSE 4
      at == {EntryAddr(S1Root + off + (n - 1 - L), VPNi(MappedVa, L))
               : off \in {0, GOff}}
      E  == S1Entries(n, 0, PtrPte(S1Root + 1), LeafPte(DataPage, {0, 1, 2, 3, 6, 7}))
            \cup S1Entries(n, GOff, PtrPte(S1Root + 1),
                           LeafPte(DataPage, {0, 1, 2, 3, 6, 7}))
            \cup GEntries \cup GSuperEntries
  IN  MemOf({e \in E : e[1] \notin at} \cup {<<a, pte>> : a \in at})

\* who makes the access: mode, guest mode, MPRV/MPP/MPV, and whether the
\* instruction is a hypervisor load/store (hld_st, with hstatus.spvp)
Ctxs(rvh) ==
  {[mode |-> MODE_U, v |-> 0, mprv |-> 0, mpp |-> 0, mpv |-> 0, hld |-> FALSE, spvp |-> 0],
   [mode |-> MODE_S, v |-> 0, mprv |-> 0, mpp |-> 0, mpv |-> 0, hld |-> FALSE, spvp |-> 0],
   [mode |-> MODE_M, v |-> 0, mprv |-> 0, mpp |-> 0, mpv |-> 0, hld |-> FALSE, spvp |-> 0],
   [mode |-> MODE_M, v |-> 0, mprv |-> 1, mpp |-> MODE_S, mpv |-> 0, hld |-> FALSE, spvp |-> 0]}
  \cup
  (IF ~rvh THEN {} ELSE
  {[mode |-> MODE_U, v |-> 1, mprv |-> 0, mpp |-> 0, mpv |-> 0, hld |-> FALSE, spvp |-> 0],
   [mode |-> MODE_S, v |-> 1, mprv |-> 0, mpp |-> 0, mpv |-> 0, hld |-> FALSE, spvp |-> 0],
   [mode |-> MODE_S, v |-> 0, mprv |-> 0, mpp |-> 0, mpv |-> 0, hld |-> TRUE, spvp |-> 1],
   [mode |-> MODE_U, v |-> 0, mprv |-> 0, mpp |-> 0, mpv |-> 0, hld |-> TRUE, spvp |-> 0],
   [mode |-> MODE_M, v |-> 0, mprv |-> 1, mpp |-> MODE_S, mpv |-> 1, hld |-> FALSE, spvp |-> 0]})

\* the contexts that translate, and hypervisor loads/stores whose
\* hstatus.spvp differs from the current mode
PermCtxs(rvh) ==
  {c \in Ctxs(rvh) : c.mode # MODE_M \/ c.mprv = 1}
  \cup
  (IF ~rvh THEN {} ELSE
  {[mode |-> MODE_S, v |-> 0, mprv |-> 0, mpp |-> 0, mpv |-> 0, hld |-> TRUE, spvp |-> 0],
   [mode |-> MODE_U, v |-> 0, mprv |-> 0, mpp |-> 0, mpv |-> 0, hld |-> TRUE, spvp |-> 1]})

\* flags of the level-0 leaf: every choice of r, w, x, u for a valid leaf
\* with a and d set, two invalid leaves, and a full-permission leaf and an
\* execute-only leaf with d clear and with a and d clear
PermFlags ==
  {f \cup {0, 6, 7} : f \in SUBSET {1, 2, 3, 4}}
  \cup {{6, 7}, {1, 2, 3, 4, 6, 7}}
  \cup {{0, 1, 2, 3, 4}, {0, 1, 2, 3, 4, 6}, {0, 3}, {0, 3, 6}}

\* SUM and MXR of mstatus and of vsstatus
PermCtl ==
  {[sum |-> 0, vsum |-> 0, mxr |-> 0, vmxr |-> 0],
   [sum |-> 1, vsum |-> 0, mxr |-> 1, vmxr |-> 0],
   [sum |-> 0, vsum |-> 1, mxr |-> 0, vmxr |-> 1]}

\* delegation of the page faults and guest-page faults
MEDELEG_PF == {EX_IPF, EX_LPF, EX_SPF, EX_IGPF, EX_LGPF, EX_SGPF}

---------------------------------------------------------------------------
(* Initial states                                                          *)

csr0 == [medeleg |-> {}, mideleg |-> {}, hedeleg |-> {}, hideleg |-> {},
         mcause |-> Exc(EX_ECU), mepc |-> W(64), mtval |-> W(68),
         mtval2 |-> W(72), mtinst |-> W(76),
         scause |-> Exc(EX_ECU), sepc |-> W(64), stval |-> W(68),
         htval |-> W(72), htinst |-> W(76),
         vscause |-> Exc(EX_ECU), vsepc |-> W(64), vstval |-> W(68),
         mtvec |-> W(256), stvec |-> W(512), vstvec |-> W(768),
         mip |-> {}, mie |-> {}, pmpcfg |-> <<>>, pmpaddr |-> <<>>]

mstatus0 == [mie |-> 0, sie |-> 0, mpie |-> 0, spie |-> 0, spp |-> 0,
             mpp |-> 0, mprv |-> 0, mpv |-> 0, gva |-> 0, sum |-> 0, mxr |-> 0]
vsstatus0 == [sie |-> 0, spie |-> 0, spp |-> 0, sum |-> 0, mxr |-> 0]
hstatus0 == [spv |-> 0, spvp |-> 0, gva |-> 0]
tcontrol0 == [mte |-> 1, mpte |-> 0]
atp0 == [satp |-> [mode |-> 0, ppn |-> {}], vsatp |-> [mode |-> 0, ppn |-> {}],
         hgatp |-> [mode |-> 0, ppn |-> {}]]
glob0 == [hld_st |-> FALSE, hlvx |-> FALSE, pt_level |-> 0, flush_tcache |-> FALSE,
          last_addr |-> <<{}, {}, {}>>, force_count |-> <<0, 0, 0>>,
          g_last_addr |-> <<{}, {}, {}>>, g_force_count |-> <<0, 0, 0>>]
guide0 == [force_raise_exception |-> FALSE, exception_num |-> {},
           mtval |-> W(80), stval |-> W(84), mtval2 |-> W(88),
           htval |-> W(92), vstval |-> W(96)]
cpu0 == [mode |-> MODE_M, v |-> 0, amo |-> FALSE, instr |-> W(115),
         guided_exec |-> FALSE, execution_guide |-> guide0]
mmu0 == [ifetch |-> MMU_DIRECT, data |-> MMU_DIRECT, h |-> MMU_DIRECT]
NoCall == [op |-> "none", fault |-> "none"]

\* the state of the variables given as a record, with the MMU-state cache
\* as the CSR-write paths leave it: recomputed from the registers
StateIs(s) ==
  LET c == update_mmu_state(s)
  IN  /\ config = c.config /\ cpu = c.cpu /\ mstatus = c.mstatus
      /\ vsstatus = c.vsstatus /\ hstatus = c.hstatus /\ tcontrol = c.tcontrol
      /\ csr = c.csr /\ atp = c.atp /\ mmu = c.mmu /\ glob = c.glob
      /\ pmem = c.pmem
InitFrom(s) == StateIs(s) /\ call = NoCall /\ ncalls = 0

Base(b) == [config |-> b, cpu |-> cpu0, mstatus |-> mstatus0,
            vsstatus |-> vsstatus0, hstatus |-> hstatus0, tcontrol |-> tcontrol0,
            csr |-> csr0, atp |-> atp0, mmu |-> mmu0, glob |-> glob0,
            pmem |-> <<>>]

\* previous-state fields that differ from what a trap taken now would save
WithModeV(s, mv) ==
  [s EXCEPT !.cpu.mode = mv[1], !.cpu.v = mv[2],
            !.mstatus.mpp = IF mv[1] = MODE_U THEN MODE_M ELSE MODE_U,
            !.mstatus.spp = 1 - (mv[1] % 2),
            !.vsstatus.spp = 1 - (mv[1] % 2),
            !.hstatus.spvp = 1 - (mv[1] % 2),
            !.hstatus.spv = 1 - mv[2],
            !.mstatus.mpv = 1 - mv[2]]

WithIe(s, mie, sie, vsie) ==
  [s EXCEPT !.mstatus.mie = mie, !.mstatus.mpie = 1 - mie,
            !.mstatus.sie = sie, !.mstatus.spie = 1 - sie,
            !.vsstatus.sie = vsie, !.vsstatus.spie = 1 - vsie]

WithDeleg(s, m, h) ==
  [s EXCEPT !.csr.medeleg = IF m THEN MEDELEG_SET ELSE {},
            !.csr.mideleg = IF m THEN MIDELEG_SET ELSE {},
            !.csr.hedeleg = IF h /\ s.config.RVH THEN HEDELEG_SET ELSE {},
            !.csr.hideleg = IF h /\ s.config.RVH THEN HIDELEG_SET ELSE {}]

WithTvecLow(s, low) ==
  [s EXCEPT !.csr.mtvec = Or(@, W(low)), !.csr.stvec = Or(@, W(low)),
            !.csr.vstvec = Or(@, W(low))]

\* the delegation family: every mode, delegation setting, interrupt-enable
\* setting and trap-vector mode
InitDeleg ==
  \E b \in Builds : \E mv \in ModeV(b.RVH) : \E m, h \in BOOLEAN :
  \E ie \in {<<1, 0, 1>>, <<0, 1, 0>>} : \E low \in 0 .. 2 :
    InitFrom(WithTvecLow(WithDeleg(WithIe(WithModeV(Base(b), mv),
                                          ie[1], ie[2], ie[3]), m, h), low))

\* the translation-register family: every mode, MPRV/MPP setting and
\* satp/vsatp/hgatp mode
InitAtp ==
  \E b \in Builds : \E mv \in ModeV(b.RVH) :
  \E mp \in {<<0, MODE_U>>, <<1, MODE_U>>, <<1, MODE_S>>, <<1, MODE_M>>} :
  \E sm \in {0, 8, 9} : \E vh \in {<<0, 0>>, <<8, 0>>, <<0, 9>>} :
    /\ b.RVH \/ vh = <<0, 0>>
    /\ InitFrom([WithDeleg(WithIe(WithModeV(Base(b), mv), 1, 1, 1), TRUE, TRUE)
                   EXCEPT !.mstatus.mprv = mp[1], !.mstatus.mpp = mp[2],
                          !.atp.satp.mode = sm, !.atp.vsatp.mode = vh[1],
                          !.atp.hgatp.mode = vh[2], !.glob.hld_st = b.RVH,
                          !.csr.mtvec = Or(@, W(1)), !.csr.stvec = Or(@, W(1)),
                          !.csr.vstvec = Or(@, W(1))])

\* the sequence family: every mode in {U, S, M}, guest or not, and every
\* delegation setting, from which traps are taken one after another
InitSeq ==
  \E b \in Builds : \E mv \in ModeV(b.RVH) : \E m, h \in BOOLEAN :
    InitFrom(WithTvecLow(WithDeleg(WithIe(WithModeV(Base(b), mv), 1, 1, 1),
                                   m, h), 1))

InitTrap == InitDeleg \/ InitAtp

\* the interrupt family: every mode, pending set, enable set, interrupt
\* delegation setting and global-enable setting
InitIntr ==
  \E b \in Builds : \E mv \in ModeV(b.RVH) :
  \E ip \in SUBSET PendingIrqs(b.RVH) : \E ien \in MIE_SETS :
  \E md \in MIDELEG_SETS : \E hd \in HIDELEG_SETS(b.RVH) :
  \E mie, sie \in {0, 1} : \E vsie \in (IF b.RVH THEN {0, 1} ELSE {0}) :
    InitFrom([WithIe(WithModeV(Base(b), mv), mie, sie, vsie)
                EXCEPT !.csr.mip = ip, !.csr.mie = ien,
                       !.csr.mideleg = md, !.csr.hideleg = hd,
                       !.csr.stvec = Or(@, W(1))])


WithCtx(s, c, amo) ==
  [s EXCEPT !.cpu.mode = c.mode, !.cpu.v = c.v, !.cpu.amo = amo,
            !.mstatus.mprv = c.mprv, !.mstatus.mpp = c.mpp,
            !.mstatus.mpv = c.mpv, !.glob.hld_st = c.hld,
            !.hstatus.spvp = c.spvp]

WithAtp(s, sm, vm, hm) ==
  [s EXCEPT !.atp.satp = [mode |-> sm, ppn |-> W(S1Root)],
            !.atp.vsatp = [mode |-> vm, ppn |-> W(S1Root)],
            !.atp.hgatp = [mode |-> hm, ppn |-> W(GRoot)]]

\* the address-check family: every context, scheme and delegation setting
\* over one well-formed set of tables
InitCanon ==
  \E b \in {x \in BuildsMmu : x.SHARE} : \E c \in Ctxs(b.RVH) :
  \E amo \in BOOLEAN : \E wm \in {8, 9} : \E sm \in {0, wm} :
  \E vm \in (IF b.RVH THEN {0, wm} ELSE {0}) :
  \E hm \in (IF b.RVH THEN {0, 8} ELSE {0}) : \E d \in {{}, MEDELEG_PF} :
    /\ ~(amo /\ c.hld)
    /\ InitFrom([WithAtp(WithCtx(Base(b), c, amo), sm, vm, hm)
                   EXCEPT !.csr.medeleg = d,
                          !.pmem = Tables(wm, PtrPte(S1Root + 1),
                                          LeafPte(DataPage, {0, 1, 2, 3, 6, 7}))])

\* the walk family: every root entry and leaf under supervisor accesses
InitWalk ==
  \E b \in BuildsMmu : \E wm \in {8, 9} :
  \E g \in (IF b.RVH THEN {<<0, 0>>, <<1, 0>>, <<1, 8>>} ELSE {<<0, 0>>}) :
  \E rootpte \in RootPointers \cup RootLeaves : \E lf \in LeafFlags :
    InitFrom([WithAtp(WithCtx(Base(b),
                              [mode |-> MODE_S, v |-> g[1], mprv |-> 0,
                               mpp |-> 0, mpv |-> 0, hld |-> FALSE,
                               spvp |-> 0], FALSE),
                      IF g[1] = 0 THEN wm ELSE 0,
                      IF g[1] = 1 THEN wm ELSE 0, g[2])
                EXCEPT !.csr.medeleg = MEDELEG_PF,
                       !.pmem = Tables(wm, rootpte, LeafPte(DataPage, lf))])

\* the superpage family: a leaf at level 1 or at the root under supervisor
\* accesses
InitSuper ==
  \E b \in BuildsMmu : \E wm \in {8, 9} :
  \E g \in (IF b.RVH THEN {<<0, 0>>, <<1, 0>>, <<1, 8>>} ELSE {<<0, 0>>}) :
  \E L \in {1, IF wm = 8 THEN 2 ELSE 3} : \E pte \in SuperLeaves(L) :
    InitFrom([WithAtp(WithCtx(Base(b),
                              [mode |-> MODE_S, v |-> g[1], mprv |-> 0,
                               mpp |-> 0, mpv |-> 0, hld |-> FALSE,
                               spvp |-> 0], FALSE),
                      IF g[1] = 0 THEN wm ELSE 0,
                      IF g[1] = 1 THEN wm ELSE 0, g[2])
                EXCEPT !.csr.medeleg = MEDELEG_PF,
                       !.pmem = SuperTables(wm, L, pte)])

InitMmu == InitCanon \/ InitWalk \/ InitSuper

\* entries stored at one level of a table whose other entries point back to
\* the table itself: the self pointer again, an invalid entry, a valid entry
\* with w and without r, a leaf, and a pointer to a page that holds no table
CycKinds(page) ==
  {PtrPte(page), {}, {0, 2, 6, 7}, LeafPte(DataPage, {0, 1, 2, 3, 4, 6, 7}),
   PtrPte(page + 2)}

\* a table at page whose entries on the path of MappedVa all point to the
\* table itself, except the entry of level at, which is pte; guest selects
\* the index widths of the second stage
CycEntries(page, self, at, pte, guest) ==
  {<<EntryAddr(page, IF guest THEN GVPNi(MappedVa, L) ELSE VPNi(MappedVa, L)),
     IF L = at THEN pte ELSE PtrPte(self)>> : L \in 0 .. 3}

\* the cycle family: first-stage tables that point to themselves, walked
\* alone, as a guest's tables behind the second stage, and second-stage
\* tables that point to themselves under a guest without first stage
InitCycle ==
  \E b \in BuildsMmu : \E wm \in {8, 9} : \E at \in 0 .. 3 :
  \E u \in {MODE_U, MODE_S} :
    \/ \E g \in (IF b.RVH THEN {<<0, 0>>, <<1, 0>>, <<1, 8>>} ELSE {<<0, 0>>}) :
       \E pte \in CycKinds(S1Root) :
         InitFrom([WithAtp(WithCtx(Base(b),
                                   [mode |-> u, v |-> g[1], mprv |-> 0,
                                    mpp |-> 0, mpv |-> 0, hld |-> FALSE,
                                    spvp |-> 0], FALSE),
                           wm, IF g[1] = 1 THEN wm ELSE 0, g[2])
                     EXCEPT !.csr.medeleg = MEDELEG_PF,
                            !.pmem = MemOf(CycEntries(S1Root, S1Root, at, pte, FALSE)
                                           \cup CycEntries(S1Root + GOff, S1Root,
                                                           at, pte, FALSE)
                                           \cup GEntries)])
    \/ /\ b.RVH
       /\ \E pte \in CycKinds(GRoot) :
            InitFrom([WithAtp(WithCtx(Base(b),
                                      [mode |-> u, v |-> 1, mprv |-> 0,
                                       mpp |-> 0, mpv |-> 0, hld |-> FALSE,
                                       spvp |-> 0], FALSE),
                              wm, 0, wm)
                        EXCEPT !.csr.medeleg = MEDELEG_PF,
                               !.pmem = MemOf(CycEntries(GRoot, GRoot, at, pte,
                                                         TRUE))])

\* what the co-simulation driver can leave in cpu.guided_exec and in the
\* execution guide: guided execution off, and a forced instruction, load or
\* store page fault
ForceGuides ==
  {[on |-> FALSE, force |-> TRUE, num |-> EX_LPF],
   [on |-> TRUE, force |-> TRUE, num |-> EX_IPF],
   [on |-> TRUE, force |-> TRUE, num |-> EX_LPF],
   [on |-> TRUE, force |-> TRUE, num |-> EX_SPF]}
WithGuide(c, g) ==
  [c EXCEPT !.guided_exec = g.on,
            !.execution_guide.force_raise_exception = g.force,
            !.execution_guide.exception_num = W(g.num)]

\* addresses handed to the injector: address 0, which the statics start
\* with, and one other
ForceVaddrs == {{}, MappedVa}

\* the injector family: Machine mode, and Supervisor mode with the page
\* faults delegated (for a guest, delegated twice), the driver asking for a
\* forced load page fault; the record of calls starts with no call made for
\* any access type
InitForce ==
  \E b \in Builds : \E g \in {x \in ForceGuides : x.num = EX_LPF /\ x.on} :
  \E c \in {<<MODE_M, 0>>, IF b.RVH THEN <<MODE_S, 1>> ELSE <<MODE_S, 0>>} :
    /\ StateIs([Base(b) EXCEPT !.cpu = WithGuide([cpu0 EXCEPT !.mode = c[1],
                                                               !.v = c[2]], g),
                               !.csr.medeleg = MEDELEG_PF,
                               !.csr.hedeleg = IF c[2] = 1 THEN MEDELEG_PF
                                               ELSE {}])
    /\ call = [op |-> "none", fault |-> "none", runs |-> <<<<>>, <<>>, <<>>>>]
    /\ ncalls = 0

\* the permission family: every translating context, leaf flag setting, SUM
\* and MXR setting and delegation setting over Sv39 tables; a hypervisor
\* load may be a load-as-execute (hlvx)
InitPerm ==
  \E b \in BuildsMmu : \E c \in PermCtxs(b.RVH) : \E fl \in PermFlags :
  \E k \in PermCtl : \E d \in {{}, MEDELEG_PF} :
  \E hx \in (IF c.hld THEN BOOLEAN ELSE {FALSE}) :
    InitFrom([WithAtp(WithCtx(Base(b), c, FALSE), 8,
                      IF b.RVH THEN 8 ELSE 0, 0)
                EXCEPT !.csr.medeleg = d, !.glob.hlvx = hx,
                       !.mstatus.sum = k.sum, !.mstatus.mxr = k.mxr,
                       !.vsstatus.sum = k.vsum, !.vsstatus.mxr = k.vmxr,
                       !.pmem = Tables(8, PtrPte(S1Root + 1),
                                       LeafPte(DataPage, fl))])

\* builds with the region checker: no entry, or two entries
BuildsPmp ==
  {[RVH |-> FALSE, RV_SV48 |-> TRUE, TVAL_EX_II |-> TRUE, RV_SDTRIG |-> TRUE,
    RV_SSCOFPMF |-> FALSE, SHARE |-> TRUE, AC_SOFT |-> TRUE,
    USE_XS_ARCH_CSRS |-> FALSE, RV_PMP_CHECK |-> TRUE,
    PMPTABLE_EXTENSION |-> FALSE, RV_PMP_ACTIVE_NUM |-> n]
     : n \in {0, 2}}

\* the first entry: off, TOR [0, 20), NA4 [20, 24) or NAPOT [16, 32), with
\* a choice of the R, W, X and L bits
PmpAddr0 == W(5)
PmpKinds == {{}, PMP_TOR, PMP_NA4, PMP_NAPOT}
PmpPerms == {{}, PMP_R, PMP_W, PMP_X, PMP_L, PMP_L \cup PMP_R}
\* the second entry: off, or TOR [20, 64) with every permission
PmpAddr1 == W(16)
PmpCfg1 == {{}, PMP_TOR \cup PMP_R \cup PMP_W \cup PMP_X}

\* cpu.mode, mstatus.MPRV and mstatus.MPP at the time of the check
PmpCtxs ==
  {[mode |-> m, mprv |-> q[1], mpp |-> q[2]]
     : m \in {MODE_U, MODE_S, MODE_M},
       q \in {<<0, MODE_M>>, <<1, MODE_U>>, <<1, MODE_M>>}}
       \ {[mode |-> MODE_U, mprv |-> 1, mpp |-> MODE_M]}

\* accesses <<addr, len>>: inside, outside and across the ends of the
\* regions, at aligned and unaligned addresses
PmpAccesses ==
  {<<16, 4>>, <<16, 8>>, <<18, 4>>, <<20, 4>>, <<24, 1>>, <<28, 8>>,
   <<30, 4>>, <<12, 8>>, <<14, 4>>, <<72, 4>>}
PmpTypes == {MEM_TYPE_IFETCH, MEM_TYPE_READ, MEM_TYPE_WRITE,
             MEM_TYPE_IFETCH_READ, MEM_TYPE_WRITE_READ}
PmpModes == {MODE_U, MODE_S, MODE_M}

\* the protection family: every first entry, second entry and context, and
\* a physical access about to be checked; with no active entry the registers
\* are not looked at
InitPmp ==
  \E b \in BuildsPmp : \E c \in PmpCtxs :
  \E k \in (IF b.RV_PMP_ACTIVE_NUM = 0 THEN {PMP_NAPOT} ELSE PmpKinds) :
  \E pm \in (IF b.RV_PMP_ACTIVE_NUM = 0 THEN {{}} ELSE PmpPerms) :
  \E c1 \in (IF b.RV_PMP_ACTIVE_NUM = 0 THEN {{}} ELSE PmpCfg1) :
  \E a \in PmpAccesses : \E type \in PmpTypes : \E out_mode \in PmpModes :
    /\ StateIs([Base(b) EXCEPT !.cpu.mode = c.mode, !.mstatus.mprv = c.mprv,
                               !.mstatus.mpp = c.mpp,
                               !.csr.pmpcfg = <<k \cup pm, c1>>,
                               !.csr.pmpaddr = <<PmpAddr0, PmpAddr1>>])
    /\ call = [op |-> "access", addr |-> W(a[1]), len |-> a[2],
               type |-> type, out_mode |-> out_mode, fault |-> "none"]
    /\ ncalls = 0

\* the build with the PMP-table extension and two entries
BuildTbl ==
  [RVH |-> FALSE, RV_SV48 |-> TRUE, TVAL_EX_II |-> TRUE, RV_SDTRIG |-> TRUE,
   RV_SSCOFPMF |-> FALSE, SHARE |-> TRUE, AC_SOFT |-> TRUE,
   USE_XS_ARCH_CSRS |-> FALSE, RV_PMP_CHECK |-> FALSE,
   PMPTABLE_EXTENSION |-> TRUE, RV_PMP_ACTIVE_NUM |-> 2]

\* the address registers: entry 0 at 0x8000, entry 1 at 0x10000, whose
\* register also names the root table at 0x4000000 when entry 0 has the
\* table bit, and the register after the last entry
TblAddrs == <<{13}, {14}, {15}>>
TblRoot == Shl({14}, 12)
TblLeaf == Shl({14, 0}, 12)

\* the first entry: off, TOR, NA4 or NAPOT, with no permission, with R, or
\* with the table bit; the second: off, or TOR without and with permissions
TblFlags0 == {{}, PMP_R, PMP_T}
TblCfg1 == {{}, PMP_TOR, PMP_TOR \cup PMP_R \cup PMP_W \cup PMP_X}

\* root entries: invalid, invalid with permission bits, a leaf pointer, a
\* leaf pointer with bit 4 set, and entries holding R and holding W and X
TblRootPtes ==
  {{}, {1, 2}, {0} \cup Shl(Shr(TblLeaf, 12), 5),
   {0, 4} \cup Shl(Shr(TblLeaf, 12), 5), {0, 1}, {0, 2, 3}}
\* leaf words: the nibbles of pages 0 to 3 are 0, R, R|W, X and 7, W|X, X, R
TblLeafWords == {{4, 8, 9, 14}, {0, 1, 2, 5, 6, 10, 12}}

\* the memory holding the tables: the varied root entry and leaf word at
\* index 0, fixed ones at index 1
TblMem(rootpte, leafword) ==
  MemOf({<<TblRoot, rootpte>>,
         <<Add(TblRoot, W(8)), {0} \cup Shl(Shr(TblLeaf, 12), 5)>>,
         <<TblLeaf, leafword>>,
         <<Add(TblLeaf, W(8)), {4, 5, 9}>>})

\* accesses <<addr, len>> below, at and above 0x8000, and far away
TblAccesses ==
  {<<4096, 4>>, <<8192, 8>>, <<12288, 4>>, <<32764, 4>>, <<32766, 4>>,
   <<32768, 4>>, <<36864, 4>>, <<131072, 4>>}
TblTypes == {MEM_TYPE_IFETCH, MEM_TYPE_READ, MEM_TYPE_WRITE}

\* offsets handed to the table lookup: pages 0 to 3 of the first leaf entry,
\* and page 1 of the second leaf entry under the second root entry
TblOffsets == {{}, {12}, {13}, {12, 13}, {25, 16, 12}}

\* the table family, an access about to be checked
InitTblAccess ==
  \E k \in PmpKinds : \E f \in TblFlags0 : \E c1 \in TblCfg1 :
  \E rp \in (IF f = PMP_T THEN TblRootPtes ELSE {{}}) :
  \E lw \in (IF f = PMP_T THEN TblLeafWords ELSE {{}}) :
  \E a \in TblAccesses : \E type \in TblTypes : \E out_mode \in PmpModes :
    /\ StateIs([Base(BuildTbl) EXCEPT !.cpu.mode = out_mode,
                                      !.csr.pmpcfg = <<k \cup f, c1>>,
                                      !.csr.pmpaddr = TblAddrs,
                                      !.pmem = TblMem(rp, lw)])
    /\ call = [op |-> "access", addr |-> W(a[1]), len |-> a[2],
               type |-> type, out_mode |-> out_mode, fault |-> "none"]
    /\ ncalls = 0

\* the table family, a lookup about to be made
InitTblLookup ==
  \E rp \in TblRootPtes : \E lw \in TblLeafWords : \E off \in TblOffsets :
  \E type \in PmpTypes : \E out_mode \in PmpModes :
    /\ StateIs([Base(BuildTbl) EXCEPT !.cpu.mode = out_mode,
                                      !.csr.pmpcfg = <<PMP_TOR \cup PMP_T, {}>>,
                                      !.csr.pmpaddr = TblAddrs,
                                      !.pmem = TblMem(rp, lw)])
    /\ call = [op |-> "lookup", offset |-> off, root_table_base |-> TblRoot,
               type |-> type, out_mode |-> out_mode, fault |-> "none"]
    /\ ncalls = 0

InitTbl == InitTblAccess \/ InitTblLookup

\* guest-physical addresses handed to gpa_stage: page 2 and the same page
\* with bit 21, 39 or 48 set, and addresses with bit 41, bits 13 and 50, and
\* bit 63 set
Gpaddrs ==
  {{13, 2}, {21, 13, 2}, {39, 13, 2}, {48, 13, 2}, {41}, {50, 13}, {63}}
GpaMapped == {{13, 2}, {39, 13, 2}, {48, 13, 2}}
GpaVaddr == {14, 3}

\* the entry that ends the second-stage walk of a mapped address, by its
\* level: level-0 entries that are a usable leaf, invalid, writable without
\* readable, not for user, read-only, execute-only and a pointer; leaves
\* above level 0 that are aligned, off by one page, and invalid
GpaEnds(n) ==
  {<<0, LeafPte(GOff, f)>> :
     f \in {{0, 1, 2, 3, 4, 6, 7}, {1, 2, 3, 4, 6, 7}, {0, 2, 4, 6, 7},
            {0, 1, 2, 3, 6, 7}, {0, 1, 4, 6, 7}, {0, 3, 4, 6, 7}, {0}}}
  \cup {<<L, LeafPte(Pow2Tab[9 * L + 1] + k, f)>> :
          L \in {1, n - 1}, k \in {0, 1},
          f \in {{0, 1, 2, 3, 4, 6, 7}}}
  \cup {<<1, LeafPte(Pow2Tab[10], {1, 2, 3, 4, 6, 7})>>}

\* the second-stage tables of an n-level scheme for the address gpa, stored
\* from page first on below the root: the root entry at the 11-bit index,
\* pointers, and the entry end[2] at level end[1]
GpaChain(n, gpa, first, end) ==
  {<<IF L = n - 1
     THEN EntryAddr(GRoot, And(Shr(gpa, VPNiSHFT(L)), LowMask(11)))
     ELSE EntryAddr(first + (n - 2 - L), And(Shr(gpa, VPNiSHFT(L)), LowMask(9))),
     IF L = end[1] THEN end[2] ELSE PtrPte(first + (n - 1 - L))>>
     : L \in end[1] .. (n - 1)}
GpaTables(n, end) ==
  MemOf(GpaChain(n, {13, 2}, 16, end) \cup GpaChain(n, {39, 13, 2}, 24, end)
        \cup GpaChain(n, {48, 13, 2}, 32, end))

\* who calls gpa_stage: the mode, an AMO, a HLVX instruction, mstatus.mxr
GpaCtxs ==
  {[mode |-> MODE_S, amo |-> FALSE, hlvx |-> FALSE, mxr |-> 0],
   [mode |-> MODE_U, amo |-> TRUE, hlvx |-> FALSE, mxr |-> 1],
   [mode |-> MODE_S, amo |-> FALSE, hlvx |-> TRUE, mxr |-> 0],
   [mode |-> MODE_M, amo |-> FALSE, hlvx |-> FALSE, mxr |-> 0]}

\* the second-stage family, a guest-physical address about to be translated
InitGpa ==
  \E b \in {x \in BuildsMmu : x.RVH /\ x.SHARE} : \E hm \in {0, 8, 9} :
  \E end \in GpaEnds(IF hm = 9 THEN 4 ELSE 3) : \E c \in GpaCtxs :
  \E d \in {{}, MEDELEG_PF} : \E gpaddr \in Gpaddrs :
  \E type \in {MEM_TYPE_IFETCH, MEM_TYPE_READ, MEM_TYPE_WRITE} :
    /\ ~(c.amo /\ type = MEM_TYPE_IFETCH)
    /\ StateIs([Base(b) EXCEPT !.cpu.mode = c.mode, !.cpu.v = 1 - (c.mode \div 3),
                               !.cpu.amo = c.amo,
                               !.glob.hlvx = c.hlvx, !.glob.hld_st = c.hlvx,
                               !.glob.pt_level = 1,
                               !.mstatus.mxr = c.mxr, !.csr.medeleg = d,
                               !.atp.hgatp = [mode |-> hm, ppn |-> W(GRoot)],
                               !.pmem = GpaTables(IF hm = 9 THEN 4 ELSE 3, end)])
    /\ call = [op |-> "guest access", gpaddr |-> gpaddr, vaddr |-> GpaVaddr,
               type |-> type, fault |-> "none"]
    /\ ncalls = 0

\* second-stage entries for the guest pages 512 to 1023, at index 1 of the
\* level-1 table: a pointer to 4 KiB leaves, an aligned 2 MiB leaf, a 2 MiB
\* leaf off by one page, an invalid entry and a leaf not for user
StagedDataEntries ==
  {PtrPte(16), LeafPte(1024, {0, 1, 2, 3, 4, 6, 7}),
   LeafPte(1025, {0, 1, 2, 3, 4, 6, 7}), LeafPte(1024, {1, 2, 3, 4, 6, 7}),
   LeafPte(1024, {0, 1, 2, 3, 6, 7})}
\* second-stage entries for guest page 2, which holds a first-stage table
StagedTableEntries ==
  {LeafPte(GOff + 2, {0, 1, 2, 3, 4, 6, 7}), LeafPte(GOff + 2, {1, 2, 3, 4, 6, 7})}

\* the two-stage family: a guest supervisor access through Sv39 tables
\* whose level-0 leaf names guest page 512 + DataPage, over second-stage
\* tables with the entry gd for the data page and gt for a table page
InitStaged ==
  \E b \in {x \in BuildsMmu : x.RVH} : \E gd \in StagedDataEntries :
  \E gt \in StagedTableEntries : \E d \in {{}, MEDELEG_PF} :
  \E sm \in {0, 8} :
    InitFrom([WithAtp(WithCtx(Base(b),
                              [mode |-> MODE_S, v |-> 1, mprv |-> 0,
                               mpp |-> 0, mpv |-> 0, hld |-> FALSE,
                               spvp |-> 0], FALSE), sm, 8, 8)
                EXCEPT !.csr.medeleg = d,
                       !.pmem =
                         MemOf({e \in S1Entries(3, GOff, PtrPte(S1Root + 1),
                                                LeafPte(512 + DataPage,
                                                        {0, 1, 2, 3, 6, 7}))
                                     \cup GEntries \cup GSuperEntries
                                  : e[1] \notin {EntryAddr(12, W(1)),
                                                 EntryAddr(13, W(2))}}
                               \cup {<<EntryAddr(12, W(1)), gd>>,
                                     <<EntryAddr(13, W(2)), gt>>}
                               \cup {<<EntryAddr(16, W(DataPage)),
                                       LeafPte(GOff + 9, {0, 1, 2, 3, 4, 6, 7})>>})])

\* builds with and without alignment enforcement
BuildsAlign ==
  {[RVH |-> b, RV_SV48 |-> TRUE, TVAL_EX_II |-> TRUE, RV_SDTRIG |-> TRUE,
    RV_SSCOFPMF |-> FALSE, SHARE |-> TRUE, AC_SOFT |-> ac,
    USE_XS_ARCH_CSRS |-> FALSE] : b \in BOOLEAN, ac \in BOOLEAN}

\* addresses that are a multiple of 16, odd, an odd multiple of 2 and of 4,
\* and addresses with bit 39 set that are odd and a multiple of 8
AlignVaddrs ==
  {MappedVa, MappedVa \cup {0}, MappedVa \cup {1}, MappedVa \cup {2},
   {39, 0}, {39, 3}}
AlignLens == {1, 2, 4, 8}
\* delegation of the misaligned exceptions and the page faults
MEDELEG_AM == {EX_LAM, EX_SAM} \cup MEDELEG_PF

\* the alignment family: every context, scheme and delegation setting, an
\* access of every length about to be checked
InitAlign ==
  \E b \in BuildsAlign : \E c \in Ctxs(b.RVH) : \E amo \in BOOLEAN :
  \E atps \in {<<0, 0, 0>>, <<8, 0, 0>>, <<8, 8, 8>>} :
  \E d \in {{}, MEDELEG_AM} : \E vaddr \in AlignVaddrs :
  \E len \in AlignLens :
  \E type \in {MEM_TYPE_IFETCH, MEM_TYPE_READ, MEM_TYPE_WRITE} :
    /\ ~(amo /\ c.hld) /\ (b.RVH \/ atps[2] = 0)
    /\ ~((amo \/ c.hld) /\ type = MEM_TYPE_IFETCH)
    /\ StateIs([WithAtp(WithCtx(Base(b), c, amo), atps[1], atps[2], atps[3])
                  EXCEPT !.csr.medeleg = d,
                         !.pmem = Tables(8, PtrPte(S1Root + 1),
                                         LeafPte(DataPage, {0, 1, 2, 3, 6, 7}))])
    /\ call = [op |-> "memory access", vaddr |-> vaddr, len |-> len,
               type |-> type, fault |-> "none"]
    /\ ncalls = 0

---------------------------------------------------------------------------
(* Actions                                                                 *)

\* addresses in the page of MappedVa at offsets 16, 0xff8, 0xffc, 0xffe and
\* 0xfff
CrossVaddrs ==
  {(MappedVa \ LowMask(PGSHFT)) \cup W(off) : off \in {16, 4088, 4092, 4094, 4095}}

\* the page-end family: a supervisor or guest-supervisor access of every
\* length near the end of a mapped page, with and without alignment
\* enforcement, guided execution off or asking for a forced page fault
InitCross ==
  \E b \in BuildsAlign : \E v \in (IF b.RVH THEN {0, 1} ELSE {0}) :
  \E g \in ForceGuides : \E vaddr \in CrossVaddrs : \E len \in AlignLens :
  \E type \in {MEM_TYPE_IFETCH, MEM_TYPE_READ, MEM_TYPE_WRITE} :
    /\ StateIs([WithAtp(Base(b), 8, 8 * v, 8 * v)
                  EXCEPT !.cpu = WithGuide([cpu0 EXCEPT !.mode = MODE_S,
                                                         !.v = v], g),
                         !.csr.medeleg = MEDELEG_AM,
                         !.pmem = Tables(8, PtrPte(S1Root + 1),
                                         LeafPte(DataPage, {0, 1, 2, 3, 6, 7}))])
    /\ call = [op |-> "memory access", vaddr |-> vaddr, len |-> len,
               type |-> type, fault |-> "none"]
    /\ ncalls = 0

Commit(s) ==
  /\ cpu' = s.cpu /\ mstatus' = s.mstatus /\ vsstatus' = s.vsstatus
  /\ hstatus' = s.hstatus /\ tcontrol' = s.tcontrol /\ csr' = s.csr
  /\ atp' = s.atp /\ mmu' = s.mmu /\ glob' = s.glob /\ pmem' = s.pmem
  /\ UNCHANGED config

\* one call raise_intr(NO, epc)
RaiseIntrWith(NO, epc) ==
  /\ LET r == raise_intr(St, NO, epc)
     IN  /\ Commit(r.s)
         /\ call' = [op |-> "raise_intr", NO |-> NO, epc |-> epc,
                     ret |-> r.ret, pre |-> St]

\* a trap taken for any cause
RaiseIntr ==
  /\ ncalls < MaxCalls
  /\ ncalls' = ncalls + 1
  /\ \E NO \in Causes(config.RVH) : \E epc \in Epcs : RaiseIntrWith(NO, epc)

SpecTrap == InitTrap /\ [][RaiseIntr]_vars

\* a trap taken after the traps before it, on the state they left; the
\* return address moves on by one instruction from trap to trap
RaiseIntrNext ==
  /\ ncalls < MaxTraps
  /\ ncalls' = ncalls + 1
  /\ \E NO \in Causes(config.RVH) : RaiseIntrWith(NO, W(128 + 4 * ncalls))

SpecSeq == InitSeq /\ [][RaiseIntrNext]_vars

\* one call isa_query_intr(): reads the state, changes none of it
IsaQueryIntr ==
  /\ ncalls < MaxCalls
  /\ ncalls' = ncalls + 1
  /\ call' = [op |-> "isa_query_intr", ret |-> isa_query_intr(St), pre |-> St]
  /\ UNCHANGED <<config, cpu, mstatus, vsstatus, hstatus, tcontrol, csr, atp,
                 mmu, glob, pmem>>

\* the execution loop takes the interrupt the query returned
TakePendingIntr ==
  /\ call.op = "isa_query_intr"
  /\ call.ret # INTR_EMPTY
  /\ UNCHANGED ncalls
  /\ \E epc \in Epcs : RaiseIntrWith(call.ret, epc)

NextIntr == IsaQueryIntr \/ TakePendingIntr

SpecIntr == InitIntr /\ [][NextIntr]_vars

\* the access types an instruction in the current state can ask for: an
\* atomic or a hypervisor load/store makes data accesses only
AccessTypes ==
  IF cpu.amo \/ glob.hld_st THEN {MEM_TYPE_READ, MEM_TYPE_WRITE}
  ELSE {MEM_TYPE_IFETCH, MEM_TYPE_READ, MEM_TYPE_WRITE}

\* the step of a call of a translation function that answered r
MmuStep(op, vaddr, len, type, r) ==
  /\ Commit(r.s)
  /\ call' = [op |-> op, vaddr |-> vaddr, len |-> len, type |-> type,
              fault |-> r.fault, ex |-> r.ex, ret |-> r.ret,
              reads |-> r.reads, perm |-> r.perm, pre |-> St]

\* no exception is on its way to the trap handler
NoFaultPending == call.fault = "none"

\* one call isa_mmu_check(vaddr, len, type)
IsaMmuCheck ==
  /\ ncalls < MaxCalls
  /\ NoFaultPending
  /\ ncalls' = ncalls + 1
  /\ \E vaddr \in Vaddrs : \E len \in Lens : \E type \in AccessTypes :
       MmuStep("isa_mmu_check", vaddr, len, type,
               isa_mmu_check(St, vaddr, len, type))

\* the memory-access path translates the access that isa_mmu_check answered
\* MMU_TRANSLATE for
TranslateRequested ==
  /\ call.op = "isa_mmu_check"
  /\ call.fault = "none"
  /\ call.ret = W(MMU_TRANSLATE)

\* one call isa_mmu_translate(vaddr, len, type)
IsaMmuTranslate ==
  /\ TranslateRequested
  /\ UNCHANGED ncalls
  /\ \E junk \in Junks :
       MmuStep("isa_mmu_translate", call.vaddr, call.len, call.type,
               isa_mmu_translate(St, call.vaddr, call.len, call.type, junk))

NextMmu == IsaMmuCheck \/ IsaMmuTranslate

SpecMmu == InitMmu /\ [][NextMmu]_vars

SpecPerm == InitPerm /\ [][NextMmu]_vars

SpecStaged == InitStaged /\ [][NextMmu]_vars

SpecCycle == InitCycle /\ [][NextMmu]_vars

\* guided execution asks for the forced page fault of the access type
ForceRequested(s, type) ==
  /\ s.cpu.guided_exec /\ s.cpu.execution_guide.force_raise_exception
  /\ s.cpu.execution_guide.exception_num
       = W(IF type = MEM_TYPE_IFETCH THEN EX_IPF
           ELSE IF type = MEM_TYPE_READ THEN EX_LPF ELSE EX_SPF)

\* the record of the calls made while the fault of their type was asked
\* for: per access type the address of the last such call and the number of
\* such calls made for that address in a row
RunsAfter(runs, s, vaddr, type) ==
  IF ~ForceRequested(s, type) THEN runs
  ELSE [runs EXCEPT ![type + 1] =
          IF @ # <<>> /\ @[1] = vaddr THEN <<vaddr, @[2] + 1>>
          ELSE <<vaddr, 1>>]

\* one call force_raise_pf(vaddr, type)
ForceRaisePf ==
  /\ call.op \in {"none", "force_raise_pf"}
  /\ ncalls < MaxForced
  /\ ncalls' = ncalls + 1
  /\ \E vaddr \in ForceVaddrs :
     \E type \in {MEM_TYPE_IFETCH, MEM_TYPE_READ, MEM_TYPE_WRITE} :
       LET r == force_raise_pf(St, vaddr, type, <<>>, <<>>)
       IN  /\ Commit(r.s)
           /\ call' = [op |-> "force_raise_pf", vaddr |-> vaddr, type |-> type,
                       fault |-> r.fault, ex |-> r.ex, ret |-> r.ret,
                       pre |-> St,
                       runs |-> RunsAfter(call.runs, St, vaddr, type)]

\* the co-simulation driver replaces the execution guide between two calls
SetGuide ==
  /\ call.op = "force_raise_pf"
  /\ ncalls < MaxForced
  /\ \E g \in ForceGuides :
       /\ cpu' = WithGuide(cpu, g)
       /\ cpu' # cpu
  /\ UNCHANGED <<config, mstatus, vsstatus, hstatus, tcontrol, csr, atp, mmu,
                 glob, pmem, call, ncalls>>

\* who makes the access of the mode family: every encoding of cpu.mode and
\* of mstatus.mpp, MPRV off and on, a guest only in U or S, and a hypervisor
\* load/store with both values of hstatus.spvp
ModeCtxs(rvh) ==
  {[mode |-> m, v |-> g[1], mprv |-> mprv, mpp |-> mpp, mpv |-> 0,
    hld |-> g[2], spvp |-> spvp]
     : m \in {MODE_U, MODE_S, MODE_RS, MODE_M},
       mpp \in {MODE_U, MODE_S, MODE_RS, MODE_M}, mprv \in {0, 1},
       g \in (IF rvh THEN {<<0, FALSE>>, <<1, FALSE>>, <<0, TRUE>>}
              ELSE {<<0, FALSE>>}),
       spvp \in {0, 1}}

\* the mode family: an access of every type to a page that is mapped, or
\* whose leaf entry is invalid, with translation switched on in satp and,
\* with the hypervisor extension, in vsatp
InitModes ==
  \E b \in {x \in BuildsMmu : x.SHARE} : \E c \in ModeCtxs(b.RVH) :
  \E lf \in {{0, 1, 2, 3, 4, 6, 7}, {}} :
  \E type \in {MEM_TYPE_IFETCH, MEM_TYPE_READ, MEM_TYPE_WRITE} :
    /\ c.v = 1 => c.mode \in {MODE_U, MODE_S}
    /\ c.hld => type # MEM_TYPE_IFETCH
    /\ ~c.hld => c.spvp = 0
    /\ StateIs([WithAtp(WithCtx(Base(b), c, FALSE), 8,
                        IF b.RVH THEN 8 ELSE 0, 0)
                  EXCEPT !.csr.medeleg = MEDELEG_PF,
                         !.pmem = Tables(8, PtrPte(S1Root + 1),
                                         IF lf = {} THEN {}
                                         ELSE LeafPte(DataPage, lf))])
    /\ call = [op |-> "memory access", vaddr |-> MappedVa, len |-> 8,
               type |-> type, fault |-> "none"]
    /\ ncalls = 0

NextForce == ForceRaisePf \/ SetGuide

SpecForce == InitForce /\ [][NextForce]_vars

\* isa_mmu_check called once more with the arguments of the call before, on
\* the state that call left, whether it returned or raised
IsaMmuCheckAgain ==
  /\ call.op = "isa_mmu_check"
  /\ UNCHANGED ncalls
  /\ LET r == isa_mmu_check(St, call.vaddr, call.len, call.type)
     IN  /\ Commit(r.s)
         /\ call' = [op |-> "isa_mmu_check again", vaddr |-> call.vaddr,
                     len |-> call.len, type |-> call.type, fault |-> r.fault,
                     ex |-> r.ex, ret |-> r.ret, reads |-> r.reads,
                     perm |-> r.perm, pre |-> St, first |-> call]

\* the call isa_mmu_check(vaddr, len, type) made for the memory access
\* about to be checked
IsaMmuCheckAccess ==
  /\ call.op = "memory access"
  /\ ncalls < MaxCalls
  /\ ncalls' = ncalls + 1
  /\ MmuStep("isa_mmu_check", call.vaddr, call.len, call.type,
             isa_mmu_check(St, call.vaddr, call.len, call.type))

SpecAlign == InitAlign /\ [][IsaMmuCheckAccess]_vars

NextCross == IsaMmuCheckAccess \/ IsaMmuTranslate

SpecCross == InitCross /\ [][NextCross]_vars

SpecModes == InitModes /\ [][NextCross]_vars

NextTwice == IsaMmuCheck \/ IsaMmuCheckAgain

SpecTwice == InitCanon /\ [][NextTwice]_vars

\* the call isa_pmp_check_permission(addr, len, type, out_mode) made for
\* the access about to be checked: it answers and changes nothing
IsaPmpCheck ==
  /\ call.op = "access"
  /\ ncalls < MaxCalls
  /\ ncalls' = ncalls + 1
  /\ call' = [op |-> "isa_pmp_check_permission", addr |-> call.addr,
              len |-> call.len, type |-> call.type,
              out_mode |-> call.out_mode, fault |-> "none",
              ret |-> isa_pmp_check_permission(St, call.addr, call.len,
                                               call.type, call.out_mode),
              pre |-> St]
  /\ Commit(St)

SpecPmp == InitPmp /\ [][IsaPmpCheck]_vars

\* the call gpa_stage(gpaddr, vaddr, type) made for the guest-physical
\* address about to be translated
GpaStage ==
  /\ call.op = "guest access"
  /\ ncalls < MaxCalls
  /\ ncalls' = ncalls + 1
  /\ LET r == gpa_stage(St, call.gpaddr, call.vaddr, call.type, <<>>, <<>>)
     IN  /\ Commit(r.s)
         /\ call' = [op |-> "gpa_stage", gpaddr |-> call.gpaddr,
                     vaddr |-> call.vaddr, type |-> call.type,
                     fault |-> r.fault, ex |-> r.ex, ret |-> r.ret,
                     reads |-> r.reads, pre |-> St]

SpecGpa == InitGpa /\ [][GpaStage]_vars

\* the call pmptable_check_permission(offset, root_table_base, type,
\* out_mode) made for the lookup about to be made
PmptableCheck ==
  /\ call.op = "lookup"
  /\ ncalls < MaxCalls
  /\ ncalls' = ncalls + 1
  /\ call' = [op |-> "pmptable_check_permission", offset |-> call.offset,
              root_table_base |-> call.root_table_base, type |-> call.type,
              out_mode |-> call.out_mode, fault |-> "none",
              ret |-> pmptable_check_permission(St, call.offset,
                                                call.root_table_base,
                                                call.type, call.out_mode),
              pre |-> St]
  /\ Commit(St)

NextTbl == IsaPmpCheck \/ PmptableCheck

SpecTbl == InitTbl /\ [][NextTbl]_vars

---------------------------------------------------------------------------
(* Vocabulary of the claims about raise_intr, stated on the call record:   *)
(* the arguments, the state before the call (call.pre) and the state now.  *)

IsTrap == call.op = "raise_intr"

\* the cause passed in: interrupt or exception, and its number
CauseIsIntr == 63 \in call.NO
CauseNum == Val(call.NO \ {63})

\* the cause's bit in the machine-level / hypervisor-level delegation register
MDelegBit == CauseNum \in (IF CauseIsIntr THEN call.pre.csr.mideleg
                           ELSE call.pre.csr.medeleg)
HDelegBit == CauseNum \in (IF CauseIsIntr THEN call.pre.csr.hideleg
                           ELSE call.pre.csr.hedeleg)

\* the level that has to handle the trap, by the delegation rule
ExpectedTarget ==
  IF call.pre.cpu.mode < MODE_M /\ MDelegBit
  THEN IF config.RVH /\ call.pre.cpu.v = 1 /\ HDelegBit THEN "VS" ELSE "S"
  ELSE "M"

\* C1: with the hypervisor extension, a cause delegated by medeleg/mideleg and
\* by hedeleg/hideleg, raised in guest mode below M, is taken to
\* Virtual-Supervisor: v = 1, mode = S, vsepc = epc, vscause written with
\* the cause (an interrupt's number lowered by one, as the code encodes it),
\* and scause, sepc, mcause, mepc unchanged.
C1_DelegatedTwiceLandsInVS ==
  (IsTrap /\ config.RVH /\ call.pre.cpu.v = 1 /\ call.pre.cpu.mode < MODE_M
     /\ MDelegBit /\ HDelegBit)
  => /\ cpu.v = 1 /\ cpu.mode = MODE_S
     /\ csr.vsepc = call.epc
     /\ csr.vscause = (IF CauseIsIntr THEN {63} \cup W(CauseNum - 1)
                       ELSE call.NO)
     /\ csr.scause = call.pre.csr.scause /\ csr.sepc = call.pre.csr.sepc
     /\ csr.mcause = call.pre.csr.mcause /\ csr.mepc = call.pre.csr.mepc

C1_Witness ==
  /\ IsTrap /\ config.RVH /\ call.pre.cpu.v = 1 /\ call.pre.cpu.mode = MODE_U
  /\ MDelegBit /\ HDelegBit /\ CauseIsIntr
  /\ cpu.v = 1 /\ cpu.mode = MODE_S /\ csr.vsepc = call.epc

\* C2: a cause delegated by medeleg/mideleg, raised below M and not delegated
\* on to Virtual-Supervisor, is taken to Supervisor: scause = cause,
\* sepc = epc, SPP = previous mode, SPIE = previous SIE, SIE = 0, mode = S.
C2_DelegatedLandsInS ==
  (IsTrap /\ MDelegBit /\ call.pre.cpu.mode < MODE_M
     /\ ~(config.RVH /\ call.pre.cpu.v = 1 /\ HDelegBit))
  => /\ csr.scause = call.NO
     /\ csr.sepc = call.epc
     /\ mstatus.spp = call.pre.cpu.mode
     /\ mstatus.spie = call.pre.mstatus.sie
     /\ mstatus.sie = 0
     /\ cpu.mode = MODE_S

\* the scenario of the claim: a delegated supervisor-timer interrupt from U
C2_Witness ==
  /\ IsTrap /\ call.NO = Irq(IRQ_STIP) /\ call.pre.cpu.mode = MODE_U
  /\ IRQ_STIP \in call.pre.csr.mideleg /\ call.pre.mstatus.sie = 1
  /\ cpu.mode = MODE_S /\ csr.scause = Irq(IRQ_STIP) /\ mstatus.spp = 0
  /\ mstatus.spie = 1

\* C3: a cause whose medeleg/mideleg bit is clear, or any cause raised in M
\* mode, is taken to Machine: mcause = cause, mepc = epc, MPP = previous mode,
\* MPIE = previous MIE, MIE = 0, mode = M.
C3_UndelegatedLandsInM ==
  (IsTrap /\ (~MDelegBit \/ call.pre.cpu.mode = MODE_M))
  => /\ csr.mcause = call.NO
     /\ csr.mepc = call.epc
     /\ mstatus.mpp = call.pre.cpu.mode
     /\ mstatus.mpie = call.pre.mstatus.mie
     /\ mstatus.mie = 0
     /\ cpu.mode = MODE_M

\* a trap in M mode of a cause all four delegation registers delegate
C3_Witness ==
  /\ IsTrap /\ call.pre.cpu.mode = MODE_M /\ MDelegBit /\ HDelegBit
  /\ call.pre.mstatus.mie = 1
  /\ cpu.mode = MODE_M /\ csr.mcause = call.NO /\ mstatus.mpp = MODE_M
  /\ mstatus.mpie = 1

\* C4: with the hypervisor extension, a trap to Machine or Supervisor leaves
\* v = 0 with the previous v saved (MPV, resp. SPV; SPVP takes the previous
\* mode only when the previous v was 1); v = 1 after a trap only when the
\* target is Virtual-Supervisor.
C4_GuestModeSavedAndCleared ==
  (IsTrap /\ config.RVH)
  => /\ ExpectedTarget = "M"
          => cpu.v = 0 /\ mstatus.mpv = call.pre.cpu.v
     /\ ExpectedTarget = "S"
          => /\ cpu.v = 0 /\ hstatus.spv = call.pre.cpu.v
             /\ hstatus.spvp = IF call.pre.cpu.v = 1 THEN call.pre.cpu.mode
                               ELSE call.pre.hstatus.spvp
     /\ cpu.v = 1 => ExpectedTarget = "VS"

\* a guest-mode trap taken to HS: v cleared, SPV = 1, SPVP = previous mode
C4_Witness ==
  /\ IsTrap /\ config.RVH /\ call.pre.cpu.v = 1 /\ ExpectedTarget = "S"
  /\ call.pre.hstatus.spvp # call.pre.cpu.mode
  /\ cpu.v = 0 /\ hstatus.spv = 1 /\ hstatus.spvp = call.pre.cpu.mode

\* the trap vector selected by the target, its base and its mode bit
SelectedTvec == IF ExpectedTarget = "VS" THEN call.pre.csr.vstvec
                ELSE IF ExpectedTarget = "S" THEN call.pre.csr.stvec
                ELSE call.pre.csr.mtvec
TvecBase == Val(SelectedTvec) - (Val(SelectedTvec) % 4)
Vectored == CauseIsIntr /\ 0 \in SelectedTvec

\* C5 as stated: the returned pc is base + 4 * (cause number of the trap
\* being taken) for an interrupt with a vectored tvec, and base otherwise,
\* for every target.
C5_Original ==
  IsTrap => Val(call.ret) = TvecBase + (IF Vectored THEN 4 * CauseNum ELSE 0)

\* C5 amended: the index is the cause number written to the target's cause
\* register: the cause passed in for Machine and Supervisor and, for an
\* interrupt taken to Virtual-Supervisor, the cause number passed in minus one.
C5_TrapPc ==
  IsTrap =>
    LET idx == IF ExpectedTarget = "VS" THEN CauseNum - 1 ELSE CauseNum
    IN  Val(call.ret) = TvecBase + (IF Vectored THEN 4 * idx ELSE 0)

\* a vectored interrupt taken to Virtual-Supervisor
C5_Witness ==
  /\ IsTrap /\ ExpectedTarget = "VS" /\ Vectored
  /\ Val(call.ret) = TvecBase + 4 * (CauseNum - 1)

\* the MMU states the registers call for, by the derivation rule
EffDataMode == IF mstatus.mprv = 1 THEN mstatus.mpp ELSE cpu.mode
DerivedIfetch == IF cpu.mode < MODE_M /\ atp.satp.mode \in {8, 9}
                 THEN MMU_TRANSLATE ELSE MMU_DIRECT
DerivedData == IF EffDataMode < MODE_M /\ atp.satp.mode \in {8, 9}
               THEN MMU_TRANSLATE ELSE MMU_DIRECT
DerivedH == IF EffDataMode < MODE_M
               /\ (atp.vsatp.mode \in {8, 9} \/ atp.hgatp.mode \in {8, 9})
            THEN MMU_TRANSLATE ELSE MMU_DIRECT

\* C6: after every raise_intr the cached MMU states equal the values derived
\* from the state the trap left (mode, MPRV/MPP, satp, vsatp/hgatp).
C6_MmuCacheFreshAfterTrap ==
  IsTrap => /\ mmu.ifetch = DerivedIfetch
            /\ mmu.data = DerivedData
            /\ config.RVH => mmu.h = DerivedH

\* a trap that flipped the cached states
C6_Witness ==
  /\ IsTrap /\ mmu.data # call.pre.mmu.data /\ mmu.ifetch # call.pre.mmu.ifetch
  /\ mmu.ifetch = DerivedIfetch /\ mmu.data = DerivedData

---------------------------------------------------------------------------
(* Vocabulary of the claims about isa_query_intr                           *)

IsQuery == call.op = "isa_query_intr"

\* the scan order: machine external, software, timer; supervisor external,
\* software, timer; user external, software, timer; and with the hypervisor
\* extension virtual-supervisor external, software, timer and guest external
ScanOrder == IF config.RVH
             THEN <<11, 3, 7, 9, 1, 5, 8, 0, 4, 10, 2, 6, 12>>
             ELSE <<11, 3, 7, 9, 1, 5, 8, 0, 4>>

\* irq is pending in mip and enabled in mie
PendEn(irq) == irq \in call.pre.csr.mip /\ irq \in call.pre.csr.mie

QMode == call.pre.cpu.mode
QGuest == call.pre.cpu.v = 1
QMDeleg(irq) == irq \in call.pre.csr.mideleg
QHDeleg(irq) == config.RVH /\ irq \in call.pre.csr.hideleg

\* irq is enabled for the current mode
EnabledForMode(irq) ==
  IF QMDeleg(irq) /\ QHDeleg(irq)
  THEN QGuest /\ (QMode < MODE_S \/ (QMode = MODE_S /\ call.pre.vsstatus.sie = 1))
  ELSE IF QMDeleg(irq)
  THEN QMode < MODE_S \/ (QMode = MODE_S /\ call.pre.mstatus.sie = 1)
         \/ (config.RVH /\ QGuest)
  ELSE QMode < MODE_M \/ (QMode = MODE_M /\ call.pre.mstatus.mie = 1)

\* positions of the scan order whose cause can be returned
Takeable == {i \in 1 .. Len(ScanOrder) :
               PendEn(ScanOrder[i]) /\ EnabledForMode(ScanOrder[i])}

\* the query returned an interrupt, and its number
Returned == IsQuery /\ call.ret # INTR_EMPTY
RetIrq == Val(call.ret \ {63})

\* C7: isa_query_intr returns, with the interrupt bit set, the first cause of
\* the scan order that is pending in mip, enabled in mie and enabled for the
\* current mode, and INTR_EMPTY when there is none, in particular when
\* mip & mie = 0.
C7_FirstInScanOrder ==
  IsQuery =>
    /\ Takeable = {} => call.ret = INTR_EMPTY
    /\ Takeable # {} =>
         /\ 63 \in call.ret
         /\ RetIrq = ScanOrder[Min(Takeable)]
         /\ call.ret = {63} \cup W(ScanOrder[Min(Takeable)])
    /\ (call.pre.csr.mip \cap call.pre.csr.mie = {}) => call.ret = INTR_EMPTY

\* two causes can be taken and the earlier one in the order is returned
C7_Witness ==
  /\ IsQuery /\ Cardinality(Takeable) >= 2
  /\ call.ret = Irq(ScanOrder[Min(Takeable)])
  /\ \E i \in 1 .. Len(ScanOrder) : i < Min(Takeable) /\ PendEn(ScanOrder[i])

\* C8: a returned interrupt with its mideleg bit clear needs mode < M or
\* mode = M with MIE; one with mideleg set and hideleg clear needs mode < S,
\* or mode = S with SIE, or guest mode, and is never returned in M mode; one
\* delegated by mideleg and hideleg needs v = 1.  A supervisor-timer
\* interrupt delegated by mideleg only, pending and enabled, is returned in
\* U mode whatever SIE is, unless a cause earlier in the order is returned.
C8_GlobalEnable ==
  /\ Returned =>
       /\ ~QMDeleg(RetIrq)
            => QMode < MODE_M \/ (QMode = MODE_M /\ call.pre.mstatus.mie = 1)
       /\ (QMDeleg(RetIrq) /\ ~QHDeleg(RetIrq))
            => /\ QMode < MODE_S \/ (QMode = MODE_S /\ call.pre.mstatus.sie = 1)
                  \/ QGuest
               /\ QMode # MODE_M
       /\ (QMDeleg(RetIrq) /\ QHDeleg(RetIrq)) => QGuest
  /\ (IsQuery /\ QMode = MODE_U /\ PendEn(IRQ_STIP) /\ QMDeleg(IRQ_STIP)
        /\ ~QHDeleg(IRQ_STIP))
       => /\ Returned
          /\ RetIrq \in {IRQ_MEIP, IRQ_MSIP, IRQ_MTIP, IRQ_SEIP, IRQ_SSIP, IRQ_STIP}
          /\ (\A i \in {IRQ_MEIP, IRQ_MSIP, IRQ_MTIP, IRQ_SEIP, IRQ_SSIP} : ~PendEn(i))
               => call.ret = Irq(IRQ_STIP)

\* the scenario of the claim: the delegated supervisor timer interrupt is
\* returned in U mode with SIE clear
C8_Witness ==
  /\ IsQuery /\ QMode = MODE_U /\ ~QGuest /\ call.pre.mstatus.sie = 0
  /\ PendEn(IRQ_STIP) /\ QMDeleg(IRQ_STIP)
  /\ call.ret = Irq(IRQ_STIP)

---------------------------------------------------------------------------
(* Vocabulary of the claims about address translation                      *)

IsCheck == call.op = "isa_mmu_check"
IsTranslate == call.op = "isa_mmu_translate"

\* whether the access is made as a guest (virtualized) access, and the
\* privilege it is made with
AccVirt ==
  /\ config.RVH
  /\ IF call.type = MEM_TYPE_IFETCH THEN call.pre.cpu.v = 1
     ELSE IF call.pre.glob.hld_st THEN TRUE
     ELSE IF call.pre.mstatus.mprv = 1
          THEN call.pre.mstatus.mpv = 1 /\ call.pre.mstatus.mpp # MODE_M
     ELSE call.pre.cpu.v = 1
AccMode ==
  IF call.type = MEM_TYPE_IFETCH THEN call.pre.cpu.mode
  ELSE IF config.RVH /\ call.pre.glob.hld_st THEN call.pre.hstatus.spvp
  ELSE IF call.pre.mstatus.mprv = 1 THEN call.pre.mstatus.mpp
  ELSE call.pre.cpu.mode

\* the first-stage scheme translating the access: vsatp's for a guest
\* access, satp's otherwise; 0 when none is active
ActiveScheme ==
  IF AccMode >= MODE_M THEN 0
  ELSE IF AccVirt THEN call.pre.atp.vsatp.mode ELSE call.pre.atp.satp.mode

\* the address is not the sign extension of its low 39 (48) bits
NonCanonical ==
  \/ ActiveScheme = 8 /\ \E b \in 39 .. 63 : (b \in call.vaddr) # (38 \in call.vaddr)
  \/ ActiveScheme = 9 /\ \E b \in 48 .. 63 : (b \in call.vaddr) # (47 \in call.vaddr)

\* the page fault of the access type; an atomic's read counts as a store
PageFaultOfType ==
  IF call.type = MEM_TYPE_IFETCH THEN EX_IPF
  ELSE IF call.type = MEM_TYPE_READ /\ ~call.pre.cpu.amo THEN EX_LPF
  ELSE EX_SPF

\* C9: with a 39-bit or 48-bit scheme active, an access to an address that
\* is not sign-extended faults with the page fault of its access type and no
\* table entry is read: isa_mmu_check raises nothing but that page fault,
\* and isa_mmu_translate raises it before reading any entry.
C9_NonCanonicalPageFault ==
  /\ (IsCheck /\ NonCanonical /\ call.fault # "none")
       => call.fault = "exception" /\ call.ex = PageFaultOfType
  /\ (IsTranslate /\ NonCanonical)
       => /\ call.fault = "exception" /\ call.ex = PageFaultOfType
          /\ call.reads = <<>>

\* the entries the first stage read, in order
S1Reads == SelectSeq(call.reads, LAMBDA r : r.stage = 1)

\* levels of the scheme that walked, and the root entry it read
WalkLevels == IF ActiveScheme = 8 THEN 3 ELSE 4
RootRead == S1Reads[1]
IsRootPointer ==
  /\ IsTranslate /\ ActiveScheme \in {8, 9} /\ Len(S1Reads) >= 1
  /\ RootRead.level = WalkLevels - 1
  /\ RootRead.pte \cap {1, 2, 3} = {}

\* the walker went down one level from the root entry, to the table its ppn
\* names, and never handed the root entry to check_permission
DescendedFromRoot ==
  /\ Len(S1Reads) >= 2
  /\ S1Reads[2].level = WalkLevels - 2
  /\ LET gpa == Or(Shl(Shr(And(RootRead.pte, 10 .. 53), 10), 12),
                   Shl(And(Shr(call.vaddr, 12 + 9 * (WalkLevels - 2)), 0 .. 8), 3))
     IN  S1Reads[2].addr =
           IF AccVirt /\ call.pre.atp.hgatp.mode # 0
           THEN Or(gpa, Shl(W(GOff), 12)) ELSE gpa
  /\ \A i \in 1 .. Len(call.perm) : call.perm[i].pte # RootRead.pte

S1Last == S1Reads[Len(S1Reads)]
LeafFound ==
  /\ IsTranslate /\ ActiveScheme \in {8, 9} /\ Len(S1Reads) >= 1
  /\ 0 \in S1Last.pte /\ S1Last.pte \cap {1, 3} # {}
  /\ ~(2 \in S1Last.pte /\ 1 \notin S1Last.pte)
LeafBits == 9 * S1Last.level + 12
LeafMisaligned ==
  Shl(Shr(And(S1Last.pte, 10 .. 53), 10), 12) \cap (0 .. (LeafBits - 1)) # {}
Translated == call.fault = "none" /\ call.ret # W(MEM_RET_FAIL)
TwoStage == AccVirt /\ call.pre.atp.hgatp.mode # 0

\* C11 as stated: for a leaf at level L > 0, all of the low 9 L + 12 bits of
\* the returned value equal those of the virtual address, and a misaligned
\* leaf raises the page fault.
C11_Original ==
  (LeafFound /\ S1Last.level > 0)
    => /\ Translated
            => call.ret \cap (0 .. (LeafBits - 1))
                 = call.vaddr \cap (0 .. (LeafBits - 1))
       /\ LeafMisaligned
            => call.fault = "exception" /\ call.ex = PageFaultOfType

\* C11 amended: for a leaf at level L > 0 of a translation that does not go
\* through the second stage, bits 12 .. 9 L + 11 of the returned value equal
\* those of the virtual address and its low 12 bits are the status
\* MEM_RET_OK; a misaligned leaf raises the page fault of the access type.
C11_SuperpageSplice ==
  (LeafFound /\ S1Last.level > 0)
    => /\ (Translated /\ ~TwoStage)
            => /\ call.ret \cap (12 .. (LeafBits - 1))
                    = call.vaddr \cap (12 .. (LeafBits - 1))
               /\ call.ret \cap (0 .. 11) = W(MEM_RET_OK)
       /\ LeafMisaligned
            => call.fault = "exception" /\ call.ex = PageFaultOfType

\* a level-1 superpage at page 512 translated MappedVa to page 515
C11_Witness ==
  /\ LeafFound /\ S1Last.level = 1 /\ ~LeafMisaligned /\ ~TwoStage
  /\ Translated /\ call.vaddr = MappedVa
  /\ call.ret = Shl(W(515), 12)

---------------------------------------------------------------------------
(* Vocabulary of the claims about the permission checker                   *)

\* the first call of check_permission the translation made and its entry
PermCalled == IsTranslate /\ Len(call.perm) >= 1
Pte1 == call.perm[1].pte

\* the effective mode as C12 words it: MPP under MPRV for data, cpu.mode
\* otherwise
StatedMode ==
  IF call.type # MEM_TYPE_IFETCH /\ call.pre.mstatus.mprv = 1
  THEN call.pre.mstatus.mpp ELSE call.pre.cpu.mode

\* SUM and MXR as they apply to the access
AccSum == IF AccVirt THEN call.pre.vsstatus.sum ELSE call.pre.mstatus.sum
AccMxr ==
  call.pre.mstatus.mxr = 1 \/ (AccVirt /\ call.pre.vsstatus.mxr = 1)

\* the validity and user/supervisor rules refuse the entry for mode m
MustDeny(m) ==
  \/ 0 \notin Pte1
  \/ m = MODE_U /\ 4 \notin Pte1
  \/ m = MODE_S /\ 4 \in Pte1 /\ (call.type = MEM_TYPE_IFETCH \/ AccSum = 0)

\* the translation raised the page fault of the access type
Denied == call.fault = "exception" /\ call.ex = PageFaultOfType

\* C12 as stated: with the effective mode MPP under MPRV for data and
\* cpu.mode otherwise, an entry the validity and user/supervisor rules refuse
\* raises the page fault of the access type.
C12_Original == (PermCalled /\ MustDeny(StatedMode)) => Denied

\* C12 amended: with the effective mode hstatus.spvp during a hypervisor
\* load/store, MPP under MPRV for other data accesses and cpu.mode otherwise,
\* an entry with v = 0, an entry with u = 0 accessed in mode U, and an entry
\* with u = 1 accessed in mode S by a fetch or with SUM clear raise the page
\* fault of the access type.
C12_DeniesByModeAndUser == (PermCalled /\ MustDeny(AccMode)) => Denied

\* a read under MPRV with MPP = S of a valid readable user page with SUM
\* clear was refused
C12_Witness ==
  /\ PermCalled /\ call.pre.cpu.mode = MODE_M /\ call.pre.mstatus.mprv = 1
  /\ AccMode = MODE_S /\ {0, 1, 4, 6, 7} \subseteq Pte1 /\ AccSum = 0
  /\ call.type = MEM_TYPE_READ /\ Denied

\* the entry is a leaf handed to check_permission with ok = true that passes
\* the validity and user/supervisor rules, has a (and d for a write) set and
\* no reserved high bit
PassesModeRules ==
  /\ PermCalled /\ call.perm[1].ok /\ ~MustDeny(AccMode)
  /\ 6 \in Pte1 /\ (call.type = MEM_TYPE_WRITE => 7 \in Pte1)
  /\ Pte1 \cap (54 .. 63) = {}

\* the access-type rule as C13 words it, and with the load-as-execute case
StatedTypeRule ==
  IF call.type = MEM_TYPE_IFETCH THEN 3 \in Pte1
  ELSE IF call.type = MEM_TYPE_READ THEN 1 \in Pte1 \/ (3 \in Pte1 /\ AccMxr)
  ELSE 2 \in Pte1
TypeRule ==
  IF call.type = MEM_TYPE_READ /\ config.RVH /\ call.pre.glob.hlvx
  THEN 3 \in Pte1 ELSE StatedTypeRule

Stage1PageFault ==
  /\ IsCheck \/ IsTranslate
  /\ call.fault = "exception" /\ call.ex \in {EX_IPF, EX_LPF, EX_SPF}

\* the raised cause is delegated to Supervisor: medeleg bit set below M
FaultDelegated ==
  call.ex \in call.pre.csr.medeleg /\ call.pre.cpu.mode < MODE_M

\* C14: a first-stage page fault leaves the faulting virtual address in stval
\* when the cause is delegated to Supervisor and in mtval otherwise, and
\* leaves the other of the two registers as it was.
C14_TvalOfHandler ==
  Stage1PageFault
    => IF FaultDelegated
       THEN csr.stval = call.vaddr /\ csr.mtval = call.pre.csr.mtval
       ELSE csr.mtval = call.vaddr /\ csr.stval = call.pre.csr.stval

\* the level-0 entry of the Sv39 tables that maps MappedVa
Level0Entry ==
  paddr_read(call.pre, EntryAddr(S1Root + 2, VPNi(MappedVa, 0)))

\* the end-to-end fetch scenario: Sv39, S mode, SUM clear, a fetch of an
\* address mapped by a level-0 leaf with v = 1, x = 1, r = w = u = 0
FetchScenario ==
  /\ IsCheck \/ IsTranslate
  /\ call.pre.atp.satp.mode = 8 /\ call.pre.cpu.mode = MODE_S
  /\ call.pre.mstatus.sum = 0
  /\ call.type = MEM_TYPE_IFETCH /\ call.vaddr = MappedVa
  /\ Level0Entry \cap {0, 1, 2, 3, 4} = {0, 3}

\* the scenario's outcome: translate returns the leaf's page base with
\* MEM_RET_OK, isa_mmu_check answers Translate, nothing is raised
FetchSucceeds ==
  /\ call.fault = "none"
  /\ IsTranslate => call.ret = PGBASE(pte_ppn(Level0Entry))
  /\ IsCheck => call.ret = W(MMU_TRANSLATE)

\* C15 as stated: the fetch through a leaf with v = 1, x = 1, r = w = u = 0
\* completes without a fault, whatever the leaf's other flags.
C15_Original == FetchScenario => FetchSucceeds

\* C15 amended: the fetch through a leaf with v = 1, x = 1, a = 1,
\* r = w = u = 0 completes without a fault, translate returns P << 12 with
\* MEM_RET_OK and isa_mmu_check answers Translate.
C15_FetchExecuteOnly == (FetchScenario /\ 6 \in Level0Entry) => FetchSucceeds

\* the translation of the scenario has returned the data page
C15_Witness ==
  /\ FetchScenario /\ IsTranslate /\ Level0Entry \cap (0 .. 9) = {0, 3, 6}
  /\ Len(S1Reads) = 3 /\ S1Last.level = 0
  /\ call.fault = "none" /\ call.ret = Shl(W(DataPage), 12)

IsCheckAgain == call.op = "isa_mmu_check again"

\* C16: a second isa_mmu_check with the same address, length and access type,
\* made on the state the first call left, ends as the first did (the same
\* returned state or the same fault), and the first call left the cached MMU
\* states as they were.
C16_CheckRepeats ==
  IsCheckAgain
    => /\ call.fault = call.first.fault
       /\ call.ex = call.first.ex
       /\ call.ret = call.first.ret
       /\ call.pre.mmu = call.first.pre.mmu

\* both calls of an atomic read of a non-canonical address raised the store
\* page fault
C16_Witness ==
  /\ IsCheckAgain /\ call.type = MEM_TYPE_READ /\ call.first.pre.cpu.amo
  /\ call.first.fault = "exception" /\ call.first.ex = EX_SPF
  /\ call.fault = "exception" /\ call.ex = EX_SPF

\* the state before the call with other values of mstatus.MPRV and MPP, the
\* cached MMU states recomputed for them
MprvVariants ==
  {update_mmu_state([call.pre EXCEPT !.mstatus.mprv = m, !.mstatus.mpp = p])
     : m \in {0, 1}, p \in {MODE_U, MODE_S, MODE_M}}

\* how isa_mmu_check ends for an instruction fetch of the same address in s
FetchAnswer(s) ==
  LET r == isa_mmu_check(s, call.vaddr, call.len, MEM_TYPE_IFETCH)
  IN  <<r.fault, r.ex, r.ret>>

\* the mode data accesses are made with: MPP under MPRV, cpu.mode otherwise
DataMode == IF mstatus.mprv = 1 THEN mstatus.mpp ELSE cpu.mode

\* C17: the cached data MMU state is Translate iff (MPRV ? MPP : cpu.mode)
\* is below M and satp's mode is 8 or 9, and what isa_mmu_check answers for
\* an instruction fetch is the same for every value of mstatus.MPRV and
\* mstatus.MPP, also with cpu.v = 1.
C17_MprvDataOnly ==
  /\ (mmu.data = MMU_TRANSLATE) <=> (DataMode < MODE_M /\ atp.satp.mode \in {8, 9})
  /\ (IsCheck /\ call.type = MEM_TYPE_IFETCH)
       => \A s \in MprvVariants :
            FetchAnswer(s) = <<call.fault, call.ex, call.ret>>

---------------------------------------------------------------------------
(* Vocabulary of the claims about isa_pmp_check_permission                 *)

IsPmp == call.op = "isa_pmp_check_permission"

\* the bytes of the access
Footprint == {Val(call.addr) + k : k \in 0 .. (call.len - 1)}

\* the bytes of the region of entry i: [previous top, top) for TOR, four
\* bytes for NA4, the naturally aligned power of two for NAPOT
RegionOf(i) ==
  LET cfg  == call.pre.csr.pmpcfg[i + 1]
      addr == call.pre.csr.pmpaddr[i + 1]
      top  == 4 * Val(addr)
      low  == IF i = 0 THEN 0 ELSE 4 * Val(call.pre.csr.pmpaddr[i])
      t    == Min(Bits \ addr)
      from == 4 * Val(addr \ LowMask(t))
  IN  IF cfg \cap PMP_A = PMP_TOR THEN low .. (top - 1)
      ELSE IF cfg \cap PMP_A = PMP_NA4 THEN top .. (top + 3)
      ELSE IF cfg \cap PMP_A = PMP_NAPOT
           THEN from .. (from + 8 * Pow2Tab[t + 1] - 1)
      ELSE {}

\* the entries the checker looks at, and those whose region the access
\* touches
PmpEntries == 0 .. (call.pre.config.RV_PMP_ACTIVE_NUM - 1)
Touched == {i \in PmpEntries : RegionOf(i) \cap Footprint # {}}

\* the effective mode: for a caller passing M, MPP under MPRV unless the
\* access is a fetch, cpu.mode otherwise
PmpEffMode ==
  IF call.out_mode # MODE_M THEN call.out_mode
  ELSE IF call.pre.mstatus.mprv = 1 /\ call.type # MEM_TYPE_IFETCH
  THEN call.pre.mstatus.mpp
  ELSE call.pre.cpu.mode

\* the permission bit of the access type
PmpTypeBit ==
  IF call.type = MEM_TYPE_IFETCH THEN PMP_X
  ELSE IF call.type = MEM_TYPE_WRITE THEN PMP_W
  ELSE PMP_R

\* C18: with zero active entries every access is granted, in U, S and M.
C18_NoEntryGrants ==
  (IsPmp /\ call.pre.config.RV_PMP_ACTIVE_NUM = 0) => call.ret

\* an S-mode write was granted with no active entry
C18_Witness ==
  /\ IsPmp /\ call.pre.config.RV_PMP_ACTIVE_NUM = 0
  /\ call.out_mode = MODE_S /\ call.type = MEM_TYPE_WRITE /\ call.ret

\* C19: an access with bytes inside one region and bytes outside it, which
\* touches no other region, is denied whatever the entry's R, W, X and L
\* bits, the mode, the alignment and the length.
C19_PartialOverlapDenied ==
  (IsPmp /\ \E i \in PmpEntries :
              /\ Touched = {i}
              /\ Footprint \ RegionOf(i) # {})
    => ~call.ret

\* C20: when the whole access lies inside the first entry it touches, it is
\* granted iff the effective mode is M and the lock bit is clear, or the
\* permission bit of the access type is set.
C20_FullMatch ==
  (IsPmp /\ Touched # {} /\ Footprint \subseteq RegionOf(Min(Touched)))
    => (call.ret <=>
          \/ /\ PmpEffMode = MODE_M
             /\ call.pre.csr.pmpcfg[Min(Touched) + 1] \cap PMP_L = {}
          \/ call.pre.csr.pmpcfg[Min(Touched) + 1] \cap PmpTypeBit # {})

\* a page-walk read made by M mode under MPRV with MPP = U was granted by
\* the R bit of a locked NAPOT entry holding the whole access
C20_Witness ==
  /\ IsPmp /\ Touched = {0} /\ Footprint \subseteq RegionOf(0)
  /\ call.pre.csr.pmpcfg[1] = PMP_NAPOT \cup PMP_L \cup PMP_R
  /\ call.out_mode = MODE_M /\ call.pre.cpu.mode = MODE_M
  /\ call.pre.mstatus.mprv = 1 /\ PmpEffMode = MODE_U
  /\ call.type = MEM_TYPE_IFETCH_READ /\ call.len = 8 /\ call.ret

\* C21: when entries exist and the access touches the region of none of
\* them, it is granted iff the effective mode is M, in the build with the
\* region check and in the build with the PMP-table extension.
C21_NoMatchMachineOnly ==
  (IsPmp /\ call.pre.config.RV_PMP_ACTIVE_NUM > 0 /\ Touched = {})
    => (call.ret <=> PmpEffMode = MODE_M)

\* the first entry whose region the access touches, the number of entries
\* if there is none
FirstTouched ==
  IF Touched = {} THEN call.pre.config.RV_PMP_ACTIVE_NUM ELSE Min(Touched)

\* other settings of entry i that must not change the answer: any
\* configuration and address above the first touched entry, the entry
\* switched off below it
OtherCfgs(i) ==
  IF i > FirstTouched
  THEN {{}, PMP_TOR, PMP_TOR \cup PMP_R \cup PMP_W \cup PMP_X,
        call.pre.csr.pmpcfg[i + 1]}
  ELSE IF i < FirstTouched
  THEN {call.pre.csr.pmpcfg[i + 1], call.pre.csr.pmpcfg[i + 1] \ PMP_A}
  ELSE {call.pre.csr.pmpcfg[i + 1]}
OtherAddrs(i) ==
  IF i > FirstTouched
  THEN {call.pre.csr.pmpaddr[i + 1], Shl(call.pre.csr.pmpaddr[i + 1], 1)}
  ELSE {call.pre.csr.pmpaddr[i + 1]}

\* C22: the lowest entry whose region the access touches decides: the
\* answer is the same for every configuration and address of the entries
\* above it, and the same with the entries below it switched off, a TOR
\* region starting at the address of the entry before it either way.
C22_LowestMatchDecides ==
  (IsPmp /\ call.pre.config.RV_PMP_ACTIVE_NUM = 2)
    => \A c0 \in OtherCfgs(0) : \A c1 \in OtherCfgs(1) :
       \A a1 \in OtherAddrs(1) :
         isa_pmp_check_permission(
           [call.pre EXCEPT !.csr.pmpcfg[1] = c0, !.csr.pmpcfg[2] = c1,
                            !.csr.pmpaddr[2] = a1],
           call.addr, call.len, call.type, call.out_mode) = call.ret

---------------------------------------------------------------------------
(* Vocabulary of the claims about pmptable_check_permission                *)

IsLookup == call.op = "pmptable_check_permission"

\* the 8-byte word of memory at the address a, a number
WordAt(a) == IF W(a) \in DOMAIN call.pre.pmem THEN call.pre.pmem[W(a)] ELSE {}

\* the root entry of the lookup: entry (offset / 2^25) mod 512 of the root
\* table
LookupRoot ==
  WordAt(Val(call.root_table_base)
         + 8 * ((Val(call.offset) \div Pow2Tab[26]) % 512))

\* the leaf word the root entry points to: word (offset / 2^16) mod 512 of
\* the page named by the root entry above bit 4
LookupLeafWord ==
  WordAt(4096 * (Val(LookupRoot) \div 32)
         + 8 * ((Val(call.offset) \div Pow2Tab[17]) % 512))

\* the page index, and the permission nibble: nibble page-index of the leaf
\* word (the low half of byte index / 2 for an even index, the high half for
\* an odd one) under a root entry ending in 0001, bits 4..1 of the root
\* entry otherwise
LookupPage == (Val(call.offset) \div 4096) % 16
LookupNibble ==
  IF LookupRoot \cap (0 .. 3) = {0}
  THEN {b \in 0 .. 3 : (8 * (LookupPage \div 2) + 4 * (LookupPage % 2) + b)
                          \in LookupLeafWord}
  ELSE {b \in 0 .. 3 : (b + 1) \in LookupRoot}

\* the bit of the nibble the access type asks for: R = 0, W = 1, X = 2
LookupWanted ==
  IF call.type = MEM_TYPE_IFETCH THEN 2
  ELSE IF call.type = MEM_TYPE_WRITE THEN 1
  ELSE 0

\* C28: the lookup passes for a caller mode of M; otherwise it passes iff
\* bit 0 of the root entry is set and the permission nibble, taken from the
\* leaf table or from the root entry, has the bit of the access type.
C28_TableLookup ==
  IsLookup
    => (call.ret <=> \/ call.out_mode = MODE_M
                     \/ 0 \in LookupRoot /\ LookupWanted \in LookupNibble)

\* a U-mode read of page 1 was granted by the high nibble of the first leaf
\* byte, whose low nibble grants nothing
C28_Witness ==
  /\ IsLookup /\ call.out_mode = MODE_U /\ call.type = MEM_TYPE_READ
  /\ call.offset = {12} /\ LookupRoot \cap (0 .. 4) = {0}
  /\ LookupLeafWord \cap (0 .. 7) = {4}
  /\ call.ret

---------------------------------------------------------------------------
(* Vocabulary of the claims about gpa_stage                                *)

IsGpa == call.op = "gpa_stage"

\* the guest-page fault of the access type: instruction, load, store/AMO
GuestFaultOfType ==
  IF call.type = MEM_TYPE_IFETCH THEN EX_IGPF
  ELSE IF call.type = MEM_TYPE_READ /\ ~call.pre.cpu.amo THEN EX_LGPF
  ELSE EX_SGPF

\* the call raised a guest-page fault
GuestFaulted ==
  call.fault = "exception" /\ call.ex \in {EX_IGPF, EX_LGPF, EX_SGPF}

\* the address width of the second-stage mode
GpaWidth == IF call.pre.atp.hgatp.mode = 9 THEN 50 ELSE 41

\* C23: with hgatp.mode = 0 gpa_stage returns the address unchanged, raises
\* nothing and reads no entry; with hgatp.mode = 8 (9) an address with a bit
\* at position 41 (50) or above is rejected with a guest-page fault before
\* any entry is read.
C23_BareAndRange ==
  IsGpa =>
    /\ call.pre.atp.hgatp.mode = 0
         => call.fault = "none" /\ call.ret = call.gpaddr /\ call.reads = <<>>
    /\ (call.pre.atp.hgatp.mode \in {8, 9}
        /\ call.gpaddr \cap (GpaWidth .. 63) # {})
         => GuestFaulted /\ call.reads = <<>>

\* an address with bit 48 set was rejected under hgatp.mode = 8 before any
\* read
C23_Witness ==
  /\ IsGpa /\ call.pre.atp.hgatp.mode = 8 /\ call.gpaddr = {48, 13, 2}
  /\ GuestFaulted /\ call.reads = <<>>

\* the last entry gpa_stage read, and its level
GpaLast == call.reads[Len(call.reads)]

\* the leaf lacks the permission of the access type: x for a fetch and for
\* HLVX, r (or x under mstatus.mxr) for a load, w for a store
GpaLeafLacks(pte) ==
  IF call.type = MEM_TYPE_IFETCH \/ call.pre.glob.hlvx THEN 3 \notin pte
  ELSE IF call.type = MEM_TYPE_READ
  THEN 1 \notin pte /\ ~(call.pre.mstatus.mxr = 1 /\ 3 \in pte)
  ELSE 2 \notin pte

\* the page number of a leaf at level L is not a multiple of 2^(9 L)
GpaLeafMisaligned(pte, L) == pte \cap (10 .. (9 + 9 * L)) # {}

\* the address or the last entry read is one the second stage rejects
GpaRejected ==
  /\ call.pre.atp.hgatp.mode \in {8, 9}
  /\ \/ call.gpaddr \cap (GpaWidth .. 63) # {}
     \/ /\ call.reads # <<>>
        /\ LET pte == GpaLast.pte
               L == GpaLast.level
           IN  \/ 0 \notin pte
               \/ 2 \in pte /\ 1 \notin pte
               \/ pte \cap {1, 2, 3} = {} /\ L = 0
               \/ /\ pte \cap {1, 2, 3} # {}
                  /\ \/ 4 \notin pte
                     \/ GpaLeafLacks(pte)
                     \/ GpaLeafMisaligned(pte, L)

\* the guest-page fault is delegated to Supervisor
GpaDelegated ==
  call.pre.cpu.mode < MODE_M /\ GuestFaultOfType \in call.pre.csr.medeleg

\* the trap values of a guest-page fault are in place: the virtual address
\* and the guest-physical address shifted right by 2
GpaTvalsSet ==
  IF GpaDelegated
  THEN csr.stval = call.vaddr /\ csr.htval = {b - 2 : b \in call.gpaddr \ {0, 1}}
  ELSE csr.mtval = call.vaddr /\ csr.mtval2 = {b - 2 : b \in call.gpaddr \ {0, 1}}

\* C24: every rejection by gpa_stage raises the guest-page fault of the
\* access type with the virtual address and the guest-physical address
\* shifted right by 2 in stval and htval when delegated, in mtval and mtval2
\* otherwise; no value is returned for a rejected address.
C24_RejectionRaises ==
  (IsGpa /\ GpaRejected)
    => /\ call.fault = "exception" /\ call.ex = GuestFaultOfType
       /\ GpaTvalsSet

\* the number of levels of the second-stage scheme
GpaLevels == IF call.pre.atp.hgatp.mode = 9 THEN 4 ELSE 3

\* the index of the guest-physical address into the table of level L: 11
\* bits at the root level, 9 bits below it, from bit 12 + 9 L up
GpaIndex(L) ==
  LET from == 12 + 9 * L
      bits == IF L = GpaLevels - 1 THEN 11 ELSE 9
  IN  {b - from : b \in call.gpaddr \cap (from .. (from + bits - 1))}

\* the table the k-th read of the walk goes to: the root named by hgatp,
\* then the table the entry read before points to
GpaTableOf(k) ==
  IF k = 1 THEN {b + 12 : b \in call.pre.atp.hgatp.ppn}
  ELSE {b + 2 : b \in call.reads[k - 1].pte \cap (10 .. 53)}

\* C25: every entry gpa_stage reads is the one at the 11-bit index of the
\* address in the root table and at the 9-bit index in a lower table, for
\* hgatp.mode 8 and 9.
C25_IndexWidths ==
  (IsGpa /\ call.pre.atp.hgatp.mode \in {8, 9})
    => \A k \in 1 .. Len(call.reads) :
         call.reads[k].addr
           = GpaTableOf(k) \cup {i + 3 : i \in GpaIndex(GpaLevels - k)}

---------------------------------------------------------------------------
(* Vocabulary of the claims about two-stage translation                    *)

\* the access is translated by both stages
Staged ==
  IsTranslate /\ AccVirt /\ call.pre.atp.vsatp.mode \in {8, 9}
  /\ ~NonCanonical

\* what the second stage answers for the guest-physical address a in the
\* state the call was made in
StageTwo(a) == gpa_stage(call.pre, a, call.vaddr, call.type, <<>>, <<>>)

\* the second stage translated a: it raised nothing and did not end on a
\* misaligned superpage leaf
StageTwoOk(a) ==
  LET g == StageTwo(a)
  IN  /\ g.fault = "none"
      /\ \/ g.reads = <<>>
         \/ LET last == g.reads[Len(g.reads)]
            IN  last.pte \cap (10 .. (9 + 9 * last.level)) = {}

\* the guest-physical address of the k-th entry of the first-stage walk
S1GuestAddr(k) ==
  (IF k = 1 THEN {b + 12 : b \in call.pre.atp.vsatp.ppn}
   ELSE {b + 2 : b \in S1Reads[k - 1].pte \cap (10 .. 53)})
  \cup {b - (9 + 9 * S1Reads[k].level) : b \in
          call.vaddr \cap ((12 + 9 * S1Reads[k].level)
                              .. (20 + 9 * S1Reads[k].level))}

\* the guest-physical address the first-stage leaf yields for the access
S1LeafResult ==
  {b + 2 : b \in S1Last.pte \cap ((LeafBits - 2) .. 53)}
  \cup (call.vaddr \cap (0 .. (LeafBits - 1)))

\* C26: in a two-stage translation every first-stage entry is read at the
\* address the second stage gives for it; a translation that returns OK
\* returns the page the second stage gives for the leaf result; and when the
\* second stage does not translate the leaf result the call ends in a fault.
C26_StagedOrFault ==
  Staged =>
    /\ \A k \in 1 .. Len(S1Reads) :
         StageTwoOk(S1GuestAddr(k))
         /\ S1Reads[k].addr = StageTwo(S1GuestAddr(k)).ret
    /\ (call.fault = "none" /\ call.ret \cap (0 .. 11) = W(MEM_RET_OK))
         => /\ LeafFound /\ StageTwoOk(S1LeafResult)
            /\ call.ret = StageTwo(S1LeafResult).ret \ (0 .. 11)
    /\ (LeafFound /\ ~StageTwoOk(S1LeafResult)) => call.fault = "exception"

\* the translation returned an address with the status MEM_RET_OK from a
\* first-stage leaf
TranslatedByLeaf ==
  /\ IsTranslate /\ call.fault = "none"
  /\ call.ret \cap (0 .. 11) = W(MEM_RET_OK)
  /\ LeafFound

\* C27: after every successful translation pt_level is the level at which
\* the first-stage leaf was found, for guest accesses and for others.
C27_LevelRecorded ==
  TranslatedByLeaf => glob.pt_level = S1Last.level

---------------------------------------------------------------------------
(* Vocabulary of the claims about the alignment check                      *)

\* the address of the access is not a multiple of its length
Misaligned == Val(call.vaddr \cap (0 .. 3)) % call.len # 0

\* the misaligned exception of the access: store/AMO for a write or under
\* cpu.amo, load otherwise
MisalignedOfType ==
  IF call.type = MEM_TYPE_WRITE \/ call.pre.cpu.amo THEN EX_SAM ELSE EX_LAM

\* C29: with alignment enforcement, isa_mmu_check raises for a misaligned
\* data access the store/AMO-misaligned exception (write, or cpu.amo) or the
\* load-misaligned exception, with the address as trap value, whether or not
\* the address is canonical; a fetch never raises a misaligned exception.
C29_MisalignedFirst ==
  IsCheck =>
    /\ (call.type # MEM_TYPE_IFETCH /\ config.AC_SOFT /\ Misaligned)
         => /\ call.fault = "exception" /\ call.ex = MisalignedOfType
            /\ IF call.pre.cpu.mode < MODE_M
                  /\ MisalignedOfType \in call.pre.csr.medeleg
               THEN csr.stval = call.vaddr /\ csr.mtval = call.pre.csr.mtval
               ELSE csr.mtval = call.vaddr /\ csr.stval = call.pre.csr.stval
    /\ call.type = MEM_TYPE_IFETCH
         => ~(call.fault = "exception" /\ call.ex \in {EX_LAM, EX_SAM, EX_IAM})

\* an odd, non-canonical read made by an atomic under Sv39 raised the
\* store/AMO-misaligned exception
C29_Witness ==
  /\ IsCheck /\ call.type = MEM_TYPE_READ /\ call.pre.cpu.amo
  /\ call.vaddr = {39, 0} /\ call.len = 8 /\ NonCanonical
  /\ call.fault = "exception" /\ call.ex = EX_SAM

---------------------------------------------------------------------------
(* Vocabulary of the claims about the accessed and dirty bits              *)

\* the leaf the first stage found has its accessed bit clear, or for a
\* write its dirty bit clear
StaleLeaf ==
  LeafFound /\ (6 \notin S1Last.pte
                \/ (call.type = MEM_TYPE_WRITE /\ 7 \notin S1Last.pte))

---------------------------------------------------------------------------
(* Vocabulary of the claims about the trap-value registers                 *)

\* the trap-value register of the level that takes the trap, and the second
\* trap-value register of that level (Supervisor: htval, Machine: mtval2)
TargetTval ==
  IF ExpectedTarget = "VS" THEN csr.vstval
  ELSE IF ExpectedTarget = "S" THEN csr.stval ELSE csr.mtval
TargetTval2 == IF ExpectedTarget = "S" THEN csr.htval ELSE csr.mtval2

\* the trap value of a cause: the return pc for a breakpoint, the instruction
\* bits for an illegal instruction when the build records them, else zero
TvalOfCause ==
  IF call.NO = Exc(EX_BP) THEN call.epc
  ELSE IF call.NO = Exc(EX_II) /\ config.TVAL_EX_II THEN call.pre.cpu.instr
  ELSE {}

\* C31: after a trap the trap-value register of the target holds the return
\* pc for a breakpoint, the instruction bits for an illegal instruction and
\* zero for every other cause; with the hypervisor extension the second
\* trap-value register of a Supervisor or Machine target is zero after every
\* trap that is not a guest-page fault.
C31_TrapValues ==
  IsTrap =>
    /\ TargetTval = TvalOfCause
    /\ (config.RVH /\ ExpectedTarget # "VS" /\ call.NO \notin GpfCases)
         => TargetTval2 = {}

---------------------------------------------------------------------------
(* Vocabulary of the claims about the length of a walk                     *)

\* the reads i .. j of the call all belong to the second stage: they are
\* reads of one walk of gpa_stage, since a first-stage read follows each
RunOfStageTwo(i, j) == \A k \in i .. j : call.reads[k].stage = 2

\* no walk read more entries than its scheme has levels
WalkBounded ==
  /\ Len(S1Reads) <= WalkLevels
  /\ \A i, j \in 1 .. Len(call.reads) :
       (i <= j /\ RunOfStageTwo(i, j)) => j - i + 1 <= GpaLevels

\* an entry no walk goes on from: invalid, w without r, or a pointer
\* (r = w = x = 0) read at level 0
EntryRefused(r) ==
  \/ 0 \notin r.pte
  \/ (2 \in r.pte /\ 1 \notin r.pte)
  \/ (r.level = 0 /\ r.pte \cap {1, 2, 3} = {})

\* the call ended at its i-th read with the page fault (first stage) or the
\* guest-page fault (second stage) of the access type
WalkFaultsAt(i) ==
  /\ i = Len(call.reads)
  /\ call.fault = "exception"
  /\ call.ex = IF call.reads[i].stage = 1 THEN PageFaultOfType
               ELSE GuestFaultOfType

\* C32: a translation reads at most 3 (39-bit scheme) or 4 (48-bit scheme)
\* entries in each walk of a stage, also through tables whose pointers lead
\* back to themselves; an invalid entry, an entry with w and without r, and
\* a pointer read at level 0 end the walk with the fault of the stage at the
\* read that found them.
C32_WalksTerminate ==
  IsTranslate =>
    /\ WalkBounded
    /\ \A i \in 1 .. Len(call.reads) :
         EntryRefused(call.reads[i]) => WalkFaultsAt(i)

\* a walk through a table that points to itself read one entry per level
\* from the same page and faulted on the pointer it found at level 0
C32_Witness ==
  /\ IsTranslate /\ ActiveScheme \in {8, 9}
  /\ Len(S1Reads) = WalkLevels
  /\ \A k \in 1 .. Len(S1Reads) :
       /\ Shr(S1Reads[k].addr, 12) = Shr(S1Reads[1].addr, 12)
       /\ S1Reads[k].pte = S1Reads[1].pte
  /\ S1Last.level = 0 /\ S1Last.pte \cap {0, 1, 2, 3} = {0}
  /\ call.fault = "exception" /\ call.ex = PageFaultOfType

---------------------------------------------------------------------------
(* Vocabulary of the claims about sequences of traps                       *)

\* C33: over every sequence of traps started in U, S or M mode, the mode
\* after a trap is S or M and not below the mode before it, a trap taken in
\* M mode stays in M, and with the hypervisor extension guest mode after a
\* trap comes with S mode, never with M.
C33_NeverLowersPrivilege ==
  /\ cpu.mode \in {MODE_U, MODE_S, MODE_M}
  /\ IsTrap =>
       /\ cpu.mode \in {MODE_S, MODE_M}
       /\ cpu.mode >= call.pre.cpu.mode
       /\ call.pre.cpu.mode = MODE_M => cpu.mode = MODE_M
       /\ (config.RVH /\ cpu.v = 1) => cpu.mode = MODE_S
       /\ cpu.v \in {0, 1}

\* the third trap of a sequence, taken to Virtual-Supervisor in guest mode
\* after an earlier trap of the sequence had been taken
C33_Witness ==
  /\ IsTrap /\ ncalls = 3
  /\ call.pre.cpu.v = 1 /\ call.pre.cpu.mode = MODE_S
  /\ cpu.v = 1 /\ cpu.mode = MODE_S

---------------------------------------------------------------------------
(* Vocabulary of the claim about what a trap leaves alone                  *)

\* the registers of a level are as they were before the trap
MachineKept ==
  /\ csr.mcause = call.pre.csr.mcause /\ csr.mepc = call.pre.csr.mepc
  /\ mstatus.mpp = call.pre.mstatus.mpp /\ mstatus.mpie = call.pre.mstatus.mpie
  /\ mstatus.mie = call.pre.mstatus.mie
SupervisorKept ==
  /\ csr.scause = call.pre.csr.scause /\ csr.sepc = call.pre.csr.sepc
  /\ mstatus.spp = call.pre.mstatus.spp /\ mstatus.spie = call.pre.mstatus.spie
  /\ mstatus.sie = call.pre.mstatus.sie
VirtualKept ==
  /\ csr.vscause = call.pre.csr.vscause /\ csr.vsepc = call.pre.csr.vsepc
  /\ vsstatus = call.pre.vsstatus

\* the trap vectors, the delegation registers, mie and mip are as they were
ControlKept ==
  /\ csr.mtvec = call.pre.csr.mtvec /\ csr.stvec = call.pre.csr.stvec
  /\ csr.vstvec = call.pre.csr.vstvec
  /\ csr.medeleg = call.pre.csr.medeleg /\ csr.mideleg = call.pre.csr.mideleg
  /\ csr.hedeleg = call.pre.csr.hedeleg /\ csr.hideleg = call.pre.csr.hideleg
  /\ csr.mie = call.pre.csr.mie /\ csr.mip = call.pre.csr.mip

\* C34: a trap writes the cause, epc and status fields of its target only:
\* taken to Supervisor it leaves the Machine and Virtual-Supervisor ones,
\* taken to Machine the Supervisor and Virtual-Supervisor ones, taken to
\* Virtual-Supervisor scause, sepc, mcause, mepc, mstatus and hstatus; no
\* trap changes a trap vector, a delegation register, mie or mip.
C34_TargetOnly ==
  IsTrap =>
    /\ ExpectedTarget = "S" => MachineKept /\ VirtualKept
    /\ ExpectedTarget = "M" => SupervisorKept /\ VirtualKept
    /\ ExpectedTarget = "VS"
         => /\ csr.scause = call.pre.csr.scause /\ csr.sepc = call.pre.csr.sepc
            /\ csr.mcause = call.pre.csr.mcause /\ csr.mepc = call.pre.csr.mepc
            /\ mstatus = call.pre.mstatus /\ hstatus = call.pre.hstatus
    /\ ControlKept

\* a trap taken to Supervisor with machine interrupts enabled: scause and
\* mstatus.SIE are written, mstatus.MIE stays set
C34_Witness ==
  /\ IsTrap /\ ExpectedTarget = "S"
  /\ call.pre.mstatus.mie = 1 /\ mstatus.mie = 1
  /\ call.pre.mstatus.sie = 1 /\ mstatus.sie = 0
  /\ csr.scause = call.NO /\ csr.scause # call.pre.csr.scause

---------------------------------------------------------------------------
(* Vocabulary of the claim about the forced-exception injector             *)

IsForce == call.op = "force_raise_pf"

\* guided execution asked for the forced page fault of the call's type
ForceAsked ==
  /\ call.pre.cpu.guided_exec
  /\ call.pre.cpu.execution_guide.force_raise_exception
  /\ call.pre.cpu.execution_guide.exception_num
       = W(IF call.type = MEM_TYPE_IFETCH THEN EX_IPF
           ELSE IF call.type = MEM_TYPE_READ THEN EX_LPF ELSE EX_SPF)

\* the page fault forced for the call's type
ForcedFault ==
  IF call.type = MEM_TYPE_IFETCH THEN EX_IPF
  ELSE IF call.type = MEM_TYPE_READ THEN EX_LPF ELSE EX_SPF

\* the call is the n-th in a row for its address among the calls of its type
\* made while the fault was asked for
NthInARow == call.runs[call.type + 1][2]

\* no trap-value register was written
TvalsKept ==
  /\ csr.stval = call.pre.csr.stval /\ csr.mtval = call.pre.csr.mtval
  /\ csr.vstval = call.pre.csr.vstval

\* C35: while guided execution asks for the forced page fault of the access
\* type, calls of force_raise_pf for one address and type raise that fault
\* on the first to fourth call in a row, let the fifth pass with MEM_RET_OK,
\* and raise again from the sixth on; another address of the type starts the
\* count again and the types count apart. With guided execution off or
\* another exception number in the guide the call returns MEM_RET_OK and
\* writes no trap-value register.
C35_FifthCallPasses ==
  IsForce =>
    IF ForceAsked
    THEN IF NthInARow = 5
         THEN call.fault = "none" /\ call.ret = W(MEM_RET_OK)
         ELSE call.fault = "exception" /\ call.ex = ForcedFault
    ELSE call.fault = "none" /\ call.ret = W(MEM_RET_OK) /\ TvalsKept

\* the sixth call in a row for one address raised the fault again
C35_Witness ==
  /\ IsForce /\ ForceAsked /\ NthInARow = 6
  /\ call.fault = "exception" /\ call.ex = ForcedFault

---------------------------------------------------------------------------
(* Vocabulary of the claim about accesses that cross a page                *)

\* the bytes of the access do not all lie in one 4 KiB page
CrossesPage == Val(call.vaddr \cap (0 .. 11)) + call.len > 4096

\* the statics of the injector are as they were before the call
InjectorKept ==
  /\ glob.last_addr = call.pre.glob.last_addr
  /\ glob.force_count = call.pre.glob.force_count
  /\ glob.g_last_addr = call.pre.glob.g_last_addr
  /\ glob.g_force_count = call.pre.glob.g_force_count

\* C36: isa_mmu_translate returns MEM_RET_CROSS_PAGE, having read no table
\* entry, raised nothing, written no register and left the injector alone,
\* exactly when (vaddr mod 4096) + len > 4096; an access that ends on the
\* page boundary is walked like any other.
C36_CrossPage ==
  IsTranslate =>
    /\ CrossesPage
         => /\ call.fault = "none" /\ call.ret = W(MEM_RET_CROSS_PAGE)
            /\ call.reads = <<>> /\ call.perm = <<>>
            /\ csr = call.pre.csr /\ InjectorKept
    /\ ~CrossesPage
         => /\ ~(call.fault = "none" /\ call.ret = W(MEM_RET_CROSS_PAGE))
            /\ Len(call.reads) >= 3
            /\ IF ForceAsked
               THEN /\ call.fault = "exception" /\ call.ex = ForcedFault
                    /\ glob.force_count[call.type + 1] = 1
               ELSE /\ call.fault = "none"
                    /\ And(call.ret, Not(PAGE_MASK))
                         = PGBASE(W(IF call.pre.cpu.v = 1 THEN GOff + DataPage
                                    ELSE DataPage))

\* a 4-byte fetch at offset 0xffe, while a forced instruction page fault is
\* asked for, answered with the cross-page status
C36_Witness ==
  /\ IsTranslate /\ CrossesPage /\ ForceAsked
  /\ call.type = MEM_TYPE_IFETCH /\ call.len = 4
  /\ call.vaddr \cap (0 .. 11) = W(4094)
  /\ call.fault = "none" /\ call.ret = W(MEM_RET_CROSS_PAGE)

---------------------------------------------------------------------------
(* The effective mode of the permission check                              *)

\* the privilege the claim names for the access that was translated
EffectiveMode ==
  IF call.pre.config.RVH /\ call.pre.glob.hld_st /\ call.type # MEM_TYPE_IFETCH
  THEN call.pre.hstatus.spvp
  ELSE IF call.pre.mstatus.mprv = 1 /\ call.type # MEM_TYPE_IFETCH
  THEN call.pre.mstatus.mpp
  ELSE call.pre.cpu.mode

\* C37: whenever isa_mmu_check answered MMU_TRANSLATE and the access is
\* translated on the same state, the assertion of check_permission holds:
\* the effective mode is U or S, for every cpu.mode and mstatus.mpp among
\* U, S, Reserved and M, on the fault path of the walk too.
C37_ModeAssertion ==
  IsTranslate =>
    /\ call.fault # "assert"
    /\ call.perm # <<>> => EffectiveMode \in {MODE_U, MODE_S}

---------------------------------------------------------------------------
(* Traps taken to Virtual-Supervisor                                       *)

\* the cause number of an interrupt as the guest sees it: the number
\* passed in lowered by one
GuestCauseNum == CauseNum - 1

\* C38: an interrupt taken to Virtual-Supervisor leaves in vscause the
\* interrupt bit with the cause number passed in minus one, and the pc
\* returned is the vstvec base plus, when vstvec is vectored, 4 times that
\* lowered number; an exception taken there leaves the cause passed in.
\* vsstatus.SPP, SPIE and SIE receive the previous mode, the previous
\* vsstatus.SIE and 0, and mstatus is left as it was.
C38_VirtualSupervisorCause ==
  (IsTrap /\ ExpectedTarget = "VS") =>
    /\ IF CauseIsIntr
       THEN /\ csr.vscause = INTR_BIT \cup W(GuestCauseNum)
            /\ Val(call.ret)
                 = Val(call.pre.csr.vstvec \ {0, 1})
                   + (IF 0 \in call.pre.csr.vstvec THEN 4 * GuestCauseNum
                      ELSE 0)
       ELSE csr.vscause = call.NO
    /\ vsstatus.spp = call.pre.cpu.mode
    /\ vsstatus.spie = call.pre.vsstatus.sie
    /\ vsstatus.sie = 0
    /\ mstatus = call.pre.mstatus

\* the virtual-supervisor timer interrupt taken from the guest's U mode
\* with interrupts enabled in vsstatus and a vectored vstvec
C38_Witness ==
  /\ IsTrap /\ ExpectedTarget = "VS" /\ CauseIsIntr
  /\ call.NO = Irq(IRQ_VSTIP)
  /\ 0 \in call.pre.csr.vstvec
  /\ call.pre.cpu.mode = MODE_U /\ call.pre.vsstatus.sie = 1
  /\ call.pre.vsstatus.spp = 1 /\ call.pre.vsstatus.spie = 0
  /\ csr.vscause = Irq(IRQ_STIP)
  /\ vsstatus.spp = 0 /\ vsstatus.spie = 1 /\ vsstatus.sie = 0

=============================================================================
